---- MODULE Spec2Model ----
(***************************************************************************)
(* Flow validation (FlowValidator), the per-flow state registry            *)
(* (ExecutionRegistry) and the admission queue / dispatcher / node loop of *)
(* FlowExecutor of the OpenFlow Node.js SDK.                               *)
(*                                                                         *)
(* JavaScript runs one synchronous segment at a time: an action of the     *)
(* executor specification is one such segment (from a call or a resumed    *)
(* await up to the next await), so re-entrant calls made inside a segment  *)
(* (processQueue called from a finally block, executeFlow called by a      *)
(* hook) are evaluated inside the action by recursive operators.           *)
(***************************************************************************)
EXTENDS Integers, Sequences, FiniteSets, TLC

VARIABLES
    globalLimit,      \* FlowExecutor.config.concurrency.global_limit
    executionQueue,   \* FlowExecutor.executionQueue: sequence of flow ids
    runningFlows,     \* FlowExecutor.runningFlows: set of flow ids
    executionCounter, \* FlowExecutor.executionCounter
    job,              \* flow id -> QueuedFlow (flow, inputVariables, hooks)
    promise,          \* flow id -> state of the promise returned by executeFlow
    frame,            \* flow id -> activation of executeFlowInternal/executeNodes
    events,           \* flow id -> hook and handler invocations, in order
    vflow,            \* validator specification: the flow JSON under validation
    vresult,          \* validator specification: the last ValidationResult
    shutdownCall,     \* shutdown specification: the activation of shutdown()
    hcall,            \* handler specification: the node, registry and provider failures
    hresult           \* handler specification: what the handler returned

vars == <<globalLimit, executionQueue, runningFlows, executionCounter, job,
          promise, frame, events, vflow, vresult, shutdownCall, hcall, hresult>>

execVars == <<globalLimit, executionQueue, runningFlows, executionCounter,
              job, promise, frame, events>>

(***************************************************************************)
(* Bounds                                                                  *)
(***************************************************************************)
MaxFlows == 2     \* executeFlow calls made by callers, per behaviour
MaxSpawned == 2   \* executeFlow calls made by beforeNode hooks, per behaviour
MaxLimit == 2     \* largest configured global_limit
MaxNodes == 2     \* nodes of a generated flow (validator specification)
MaxNumeral == 100 \* numerals recognised in texts and property names
MaxItems == 5     \* items of a list iterated by a FOR_EACH node

(***************************************************************************)
(* Values.  A JavaScript value is a record with its tag t (typeof, with   *)
(* arrays and null told apart).  A string carries its text as a sequence   *)
(* of pieces (single characters, numerals printed by ToString), so that    *)
(* concatenation is \o; Str(42) is "42" and Num(42) is 42.  An object      *)
(* carries its fields, an array its items.                                 *)
(***************************************************************************)
Undef == [t |-> "undefined", v |-> 0]
Null == [t |-> "null", v |-> 0]
Num(n) == [t |-> "number", v |-> n]
Txt(chars) == [t |-> "string", v |-> 0, chars |-> chars]
Str(n) == Txt(<<ToString(n)>>)
Obj(f) == [t |-> "object", v |-> 0, fields |-> f]
Arr(items) == [t |-> "array", v |-> 0, items |-> items]
Bool(b) == [t |-> "boolean", v |-> IF b THEN 1 ELSE 0]

\* String(value), as the pieces of the text
StringOf(val) ==
    CASE val.t = "string" -> val.chars
      [] val.t = "number" -> <<ToString(val.v)>>
      [] val.t = "undefined" -> <<"undefined">>
      [] val.t = "null" -> <<"null">>
      [] val.t = "boolean" -> IF val.v = 1 THEN <<"true">> ELSE <<"false">>
      [] val.t = "array" -> <<"[items]">>
      [] OTHER -> <<"[object Object]">>

\* JSON.stringify(value) of an object or an array, as one piece
\* JSON.stringify(value) as a text.  The objects of the model carry no key
\* order, so the members of an object are printed in one fixed order.
RECURSIVE JsonText(_), JsonItems(_), JsonMembers(_, _)
JsonItems(items) ==
    IF items = <<>> THEN <<>>
    ELSE JsonText(Head(items))
         \o (IF Len(items) > 1 THEN <<",">> ELSE <<>>) \o JsonItems(Tail(items))

JsonMembers(fields, keys) ==
    IF keys = {} THEN <<>>
    ELSE LET key == CHOOSE k \in keys : TRUE
         IN  <<"\"", key, "\"", ":">> \o JsonText(fields[key])
             \o (IF keys # {key} THEN <<",">> ELSE <<>>)
             \o JsonMembers(fields, keys \ {key})

JsonText(val) ==
    CASE val.t = "string" -> <<"\"">> \o val.chars \o <<"\"">>
      [] val.t = "number" -> <<ToString(val.v)>>
      [] val.t = "boolean" -> IF val.v = 1 THEN <<"true">> ELSE <<"false">>
      [] val.t = "array" -> <<"[">> \o JsonItems(val.items) \o <<"]">>
      [] val.t = "object" -> <<"{">> \o JsonMembers(val.fields, DOMAIN val.fields) \o <<"}">>
      [] OTHER -> <<"null">>

JsonOf(val) == Txt(JsonText(val))

\* current[parts[i]] in ExecutionRegistry.resolveExpression
Nav(val, seg) ==
    IF val.t = "object" /\ seg \in DOMAIN val.fields THEN val.fields[seg] ELSE Undef

(***************************************************************************)
(* Sequence helpers                                                        *)
(***************************************************************************)
Range(s) == {s[i] : i \in 1..Len(s)}

RECURSIVE Flatten(_)
Flatten(ss) == IF ss = <<>> THEN <<>> ELSE Head(ss) \o Flatten(Tail(ss))

IndexOf(s, e) == IF e \in Range(s) THEN CHOOSE i \in 1..Len(s) : s[i] = e /\ \A j \in 1..(i-1) : s[j] # e
                 ELSE 0

(***************************************************************************)
(* Flows.  A node has an id, a type, at most one {{head.path}} reference   *)
(* in its payload (head = "" when there is none) and, for UPDATE_VARIABLE, *)
(* the target variable and the literal used when value has no reference.   *)
(* The reference sits where the node type keeps its input: value for       *)
(* UPDATE_VARIABLE, messages[].text for LLM, input.text for TEXT_EMBEDDING.*)
(***************************************************************************)
NodeTypes == {"UPDATE_VARIABLE", "LLM", "TEXT_EMBEDDING"}

Node(id, type, head, path) ==
    [id |-> id, type |-> type, head |-> head, path |-> path,
     variable_id |-> "x", lit |-> Str(1),
     op |-> "update", join_str |-> Undef, prefix |-> <<>>]

HasRef(node) == node.head # ""

\* String.prototype.startsWith("output") on the dotted tail: decided by the
\* first segment, and true of every segment that begins with these letters
OutputPrefixed == {"output", "outputs", "output_text"}
StartsWithOutput(path) == path # <<>> /\ path[1] \in OutputPrefixed

Err(code, detail) == [code |-> code, detail |-> detail]

(***************************************************************************)
(* FlowValidator                                                           *)
(***************************************************************************)
\* validateNodesStructure: one DUPLICATE_NODE_ID for every top-level node whose
\* id was already seen at an earlier index
validateNodesStructure(nodes) ==
    Flatten([i \in 1..Len(nodes) |->
        IF \E j \in 1..(i-1) : nodes[j].id = nodes[i].id
        THEN <<Err("DUPLICATE_NODE_ID", nodes[i].id)>> ELSE <<>>])

validateVariablesStructure(variables) ==
    Flatten([i \in 1..Len(variables) |->
        IF \E j \in 1..(i-1) : variables[j].id = variables[i].id
        THEN <<Err("DUPLICATE_VARIABLE_ID", variables[i].id)>> ELSE <<>>])

validateInputOutputReferences(flow) ==
    LET variableIds == {flow.variables[i].id : i \in 1..Len(flow.variables)}
    IN  Flatten([i \in 1..Len(flow.output) |->
            IF flow.output[i] \notin variableIds
            THEN <<Err("INVALID_VARIABLE_REFERENCE", flow.output[i])>> ELSE <<>>])

\* parseAndValidateStructure: header errors return before the node checks
parseAndValidateStructure(flow) ==
    IF ~flow.header
    THEN <<Err("MISSING_REQUIRED_FIELD", "name")>>
    ELSE validateNodesStructure(flow.nodes)
         \o validateVariablesStructure(flow.variables)
         \o validateInputOutputReferences(flow)

\* extractFromText on the payload of a node without the nodes nested in it
TokensOf(node, scopeKeys, forEachNodes) ==
    IF HasRef(node)
    THEN <<[nodeId |-> node.head, path |-> node.path,
            scopeKeys |-> scopeKeys, forEachNodes |-> forEachNodes]>>
    ELSE <<>>

\* collectScopeNodes: the ids of the nodes of a loop body, with those of the
\* bodies of the loops nested in it
RECURSIVE collectScopeNodes(_)
collectScopeNodes(eachNodes) ==
    UNION {{eachNodes[k].id}
           \cup (IF eachNodes[k].type = "FOR_EACH"
                 THEN collectScopeNodes(eachNodes[k].each_nodes) ELSE {}) :
           k \in 1..Len(eachNodes)}

\* extractFromText(JSON.stringify(node), scopeContext): every token of the
\* node and of all the nodes nested in it, under one scope
RECURSIVE StringifiedTokens(_, _, _)
StringifiedTokens(node, scopeKeys, forEachNodes) ==
    TokensOf(node, scopeKeys, forEachNodes)
    \o (IF node.type = "CONDITION"
        THEN Flatten([b \in 1..Len(node.branches) |->
                 Flatten([k \in 1..Len(node.branches[b].nodes) |->
                     StringifiedTokens(node.branches[b].nodes[k],
                                       scopeKeys, forEachNodes)])])
        ELSE IF node.type = "FOR_EACH"
        THEN Flatten([k \in 1..Len(node.each_nodes) |->
                 StringifiedTokens(node.each_nodes[k], scopeKeys, forEachNodes)])
        ELSE <<>>)

\* extractFromNodes for one node of nodes under scopeContext.  A FOR_EACH
\* node is scanned without its each_nodes under scopeContext, and its body
\* under the scope keys of scopeContext with each_key and each_key_index
\* added and, as forEachNodes, the ids collected from its own body; any other
\* node is scanned whole under scopeContext
RECURSIVE extractFromNode(_, _, _)
extractFromNode(node, scopeKeys, forEachNodes) ==
    IF node.type = "FOR_EACH"
    THEN TokensOf(node, scopeKeys, forEachNodes)
         \o Flatten([k \in 1..Len(node.each_nodes) |->
                extractFromNode(node.each_nodes[k],
                                scopeKeys \cup {node.each_key, node.each_key \o "_index"},
                                collectScopeNodes(node.each_nodes))])
    ELSE StringifiedTokens(node, scopeKeys, forEachNodes)

\* extractVariableReferences: every {{...}} token of the flow, the top-level
\* nodes in declaration order under no scope
extractVariableReferences(flow) ==
    Flatten([i \in 1..Len(flow.nodes) |-> extractFromNode(flow.nodes[i], {}, {})])

validateVariableReferences(flow, references) ==
    LET globalNodeIds == {flow.nodes[i].id : i \in 1..Len(flow.nodes)}
        variableIds == {flow.variables[i].id : i \in 1..Len(flow.variables)}
        check(r) ==
            IF r.nodeId \in r.scopeKeys THEN <<>>
            ELSE IF r.nodeId \in globalNodeIds \/ r.nodeId \in r.forEachNodes THEN <<>>
            ELSE IF r.path = <<>>
                 THEN IF r.nodeId \notin variableIds
                      THEN <<Err("INVALID_VARIABLE_REFERENCE", r.nodeId)>> ELSE <<>>
                 ELSE <<Err("INVALID_VARIABLE_REFERENCE", r.nodeId)>>
    IN  Flatten([i \in 1..Len(references) |-> check(references[i])])

\* extractNodeReferences: only UPDATE_VARIABLE.value and the LLM message
\* texts are scanned; every other node type yields no reference
extractNodeReferences(node) ==
    IF node.type \in {"UPDATE_VARIABLE", "LLM"} /\ HasRef(node)
    THEN {[nodeId |-> node.head, path |-> node.path]}
    ELSE {}

\* the dependency sets of buildDependencyGraph; graph.nodes is a Map, whose
\* key order is the order of first insertion and whose value is the last set
GraphKeys(flow) ==
    LET ids == [i \in 1..Len(flow.nodes) |-> flow.nodes[i].id]
    IN  Flatten([i \in 1..Len(ids) |->
            IF \E j \in 1..(i-1) : ids[j] = ids[i] THEN <<>> ELSE <<ids[i]>>])

GraphDeps(flow) ==
    [id \in Range(GraphKeys(flow)) |->
        LET last == CHOOSE i \in 1..Len(flow.nodes) :
                        /\ flow.nodes[i].id = id
                        /\ \A j \in (i+1)..Len(flow.nodes) : flow.nodes[j].id # id
        IN  {r.nodeId : r \in {q \in extractNodeReferences(flow.nodes[last]) :
                                    StartsWithOutput(q.path)}}]

\* the while loop of topologicalSort (Kahn): shift the queue, append to the
\* result, then walk the map in key order decrementing the dependants
RECURSIVE KahnDecrement(_, _, _, _, _, _)
KahnDecrement(keys, deps, current, i, inDegree, queue) ==
    IF i > Len(keys) THEN [inDegree |-> inDegree, queue |-> queue]
    ELSE IF current \in deps[keys[i]]
         THEN LET newInDegree == inDegree[keys[i]] - 1
              IN  KahnDecrement(keys, deps, current, i + 1,
                      [inDegree EXCEPT ![keys[i]] = newInDegree],
                      IF newInDegree = 0 THEN Append(queue, keys[i]) ELSE queue)
         ELSE KahnDecrement(keys, deps, current, i + 1, inDegree, queue)

RECURSIVE KahnLoop(_, _, _, _, _)
KahnLoop(keys, deps, inDegree, queue, result) ==
    IF queue = <<>> THEN result
    ELSE LET currentNode == Head(queue)
             step == KahnDecrement(keys, deps, currentNode, 1, inDegree, Tail(queue))
         IN  KahnLoop(keys, deps, step.inDegree, step.queue, Append(result, currentNode))

\* topologicalSort: [ok, order]; ok = FALSE stands for the thrown
\* "Circular dependency detected"
topologicalSort(keys, deps) ==
    LET inDegree == [id \in Range(keys) |-> Cardinality(deps[id] \cap Range(keys))]
        queue == Flatten([i \in 1..Len(keys) |->
                    IF inDegree[keys[i]] = 0 THEN <<keys[i]>> ELSE <<>>])
        result == KahnLoop(keys, deps, inDegree, queue, <<>>)
    IN  [ok |-> Len(result) = Len(keys), order |-> result]

\* buildDependencyGraph: [errors, hasGraph, executionOrder]
buildDependencyGraph(flow) ==
    LET sorted == topologicalSort(GraphKeys(flow), GraphDeps(flow))
    IN  IF sorted.ok
        THEN [errors |-> <<>>, hasGraph |-> TRUE, executionOrder |-> sorted.order]
        ELSE [errors |-> <<Err("CIRCULAR_DEPENDENCY", "")>>, hasGraph |-> FALSE,
              executionOrder |-> <<>>]

validateExecutionOrder(flow, executionOrder) ==
    IF Cardinality(Range(executionOrder))
         # Cardinality({flow.nodes[i].id : i \in 1..Len(flow.nodes)})
    THEN <<Err("MISSING_DEPENDENCY", "")>> ELSE <<>>

\* validateSemantics: the warning list (an empty flow only warns)
validateSemantics(flow) ==
    IF Len(flow.nodes) = 0 THEN <<Err("INVALID_VALUE", "nodes")>> ELSE <<>>

\* validateDependenciesAndVariables: [errors, hasGraph, executionOrder]
validateDependenciesAndVariables(flow) ==
    LET dep == buildDependencyGraph(flow)
    IN  [errors |-> validateVariableReferences(flow, extractVariableReferences(flow))
                    \o dep.errors
                    \o (IF dep.hasGraph
                        THEN validateExecutionOrder(flow, dep.executionOrder)
                        ELSE <<>>),
         hasGraph |-> dep.hasGraph, executionOrder |-> dep.executionOrder]

\* validateFlow: [isValid, errors, warnings, hasGraph, executionOrder]
validateFlow(flow) ==
    LET parseErrors == parseAndValidateStructure(flow)
        dep == validateDependenciesAndVariables(flow)
    IN  IF parseErrors # <<>>
        THEN [isValid |-> FALSE, errors |-> parseErrors, warnings |-> <<>>,
              hasGraph |-> FALSE, executionOrder |-> <<>>]
        ELSE [isValid |-> dep.errors = <<>>, errors |-> dep.errors,
              warnings |-> validateSemantics(flow),
              hasGraph |-> dep.hasGraph, executionOrder |-> dep.executionOrder]

(***************************************************************************)
(* ExecutionRegistry                                                       *)
(***************************************************************************)
SetKey(f, k, val) == [x \in DOMAIN f \cup {k} |-> IF x = k THEN val ELSE f[x]]

\* JavaScript typeof: arrays and null are objects
TypeOf(val) == IF val.t \in {"array", "null"} THEN "object" ELSE val.t

\* the type test that takes typeof value for the test of object
validateVariableType_Typeof(variableTypes, variableId, value) ==
    IF variableId \notin DOMAIN variableTypes \/ variableTypes[variableId] = ""
    THEN TRUE
    ELSE CASE variableTypes[variableId] \in {"string", "number", "boolean"} ->
                  TypeOf(value) = variableTypes[variableId]
           [] variableTypes[variableId] = "array" -> value.t = "array"
           [] variableTypes[variableId] = "object" -> TypeOf(value) = "object"
           [] OTHER -> TRUE

\* validateVariableType: TRUE when it returns, FALSE when it throws
\* "Variable '<id>' should be a <type>, but got <typeof value>"
validateVariableType(variableTypes, variableId, value) ==
    IF variableId \notin DOMAIN variableTypes \/ variableTypes[variableId] = ""
    THEN TRUE
    ELSE CASE variableTypes[variableId] = "string" -> TypeOf(value) = "string"
           [] variableTypes[variableId] = "number" -> TypeOf(value) = "number"
           [] variableTypes[variableId] = "boolean" -> TypeOf(value) = "boolean"
           [] variableTypes[variableId] = "array" -> value.t = "array"
           [] variableTypes[variableId] = "object" -> value.t = "object"
           [] OTHER -> TRUE

\* initializeVariables: record every declaration, store the defined defaults
RECURSIVE initializeVariables(_, _)
initializeVariables(registry, variables) ==
    IF variables = <<>> THEN registry
    ELSE LET variable == Head(variables)
             typed == [registry EXCEPT !.variableTypes =
                          SetKey(@, variable.id, variable.type)]
         IN  initializeVariables(
                 IF variable.default # Undef
                 THEN [typed EXCEPT !.variables = SetKey(@, variable.id, variable.default)]
                 ELSE typed,
                 Tail(variables))

\* setInputVariables: [ok, registry, variableId]; ok = FALSE is the throw of
\* validateVariableType for the entry variableId
RECURSIVE setInputVariables(_, _)
setInputVariables(registry, inputVariables) ==
    IF inputVariables = <<>> THEN [ok |-> TRUE, registry |-> registry, variableId |-> ""]
    ELSE LET entry == Head(inputVariables)
         IN  IF ~validateVariableType(registry.variableTypes, entry.id, entry.value)
             THEN [ok |-> FALSE, registry |-> registry, variableId |-> entry.id]
             ELSE setInputVariables(
                      [registry EXCEPT !.variables = SetKey(@, entry.id, entry.value)],
                      Tail(inputVariables))

EmptyRegistry == [variables |-> <<>>, nodeOutputs |-> <<>>, variableTypes |-> <<>>]

\* the constructor that stores the defaults after the inputs
NewRegistry_DefaultsLast(flow, inputVariables) ==
    LET set == setInputVariables(initializeVariables(EmptyRegistry, flow.variables),
                                 inputVariables)
    IN  [set EXCEPT !.registry = initializeVariables(@, flow.variables)]

\* new ExecutionRegistry(flowId, flow, tempDir, inputVariables)
NewRegistry(flow, inputVariables) ==
    setInputVariables(initializeVariables(EmptyRegistry, flow.variables), inputVariables)

\* setVariable: [ok, registry]
setVariable(registry, variableId, value) ==
    IF validateVariableType(registry.variableTypes, variableId, value)
    THEN [ok |-> TRUE, registry |-> [registry EXCEPT !.variables = SetKey(@, variableId, value)]]
    ELSE [ok |-> FALSE, registry |-> registry]

getVariable(registry, variableId) ==
    IF variableId \in DOMAIN registry.variables THEN registry.variables[variableId] ELSE Undef

setNodeOutput(registry, nodeId, output) ==
    [registry EXCEPT !.nodeOutputs = SetKey(@, nodeId, output)]

getNodeOutput(registry, nodeId) ==
    IF nodeId \in DOMAIN registry.nodeOutputs THEN registry.nodeOutputs[nodeId] ELSE Undef

RECURSIVE Navigate(_, _)
Navigate(current, path) ==
    IF path = <<>> THEN current ELSE Navigate(Nav(current, Head(path)), Tail(path))

\* resolveExpression on head(.path)*
resolveExpression(registry, head, path) ==
    IF path = <<>>
    THEN IF head \in DOMAIN registry.nodeOutputs
         THEN registry.nodeOutputs[head] ELSE getVariable(registry, head)
    ELSE IF head \notin DOMAIN registry.nodeOutputs
         THEN Undef ELSE Navigate(registry.nodeOutputs[head], path)

\* registry.clear()
ClearRegistry(registry) == [registry EXCEPT !.variables = <<>>, !.nodeOutputs = <<>>]

(***************************************************************************)
(* Node handlers                                                           *)
(***************************************************************************)
\* a text with {{...}} tokens is the sequence of its pieces: a literal piece
\* [lit] (head = "") or a token [head, path]
Literal(lit) == [head |-> "", path |-> <<>>, lit |-> lit]
Token(head, path) == [head |-> head, path |-> path, lit |-> ""]

\* match: the token as the text holds it
TokenText(piece) ==
    <<"{{", piece.head>> \o Flatten([i \in 1..Len(piece.path) |-> <<".", piece.path[i]>>])
        \o <<"}}">>

\* the replacement that forgets the test value !== undefined
Replacement_Stringifies(piece, value) == StringOf(value)

\* the callback of text.replace: value !== undefined ? String(value) : match
Replacement(piece, value) == IF value # Undef THEN StringOf(value) ELSE TokenText(piece)

\* BaseNode.resolveVariables: every token of the text replaced in place
resolveVariables(text, registry) ==
    Flatten([i \in 1..Len(text) |->
        IF text[i].head = "" THEN <<text[i].lit>>
        ELSE Replacement(text[i], resolveExpression(registry, text[i].head, text[i].path))])

\* BaseNode.resolveValueExpression on a text: one token alone resolves to the
\* referenced value itself, every other text to resolveVariables
resolveText(text, registry) ==
    IF Len(text) = 1 /\ text[1].head # ""
    THEN resolveExpression(registry, text[1].head, text[1].path)
    ELSE Txt(resolveVariables(text, registry))

\* BaseNode.resolveValueExpression on the value of node, where referenced is
\* what registry.resolveExpression returns for its token: a value that is one
\* {{...}} token resolves to the referenced value itself, a template to its
\* text with the token replaced (and left in place when undefined), a literal
\* to itself
resolveValueExpression(node, referenced) ==
    IF ~HasRef(node) THEN node.lit
    ELSE IF node.prefix = <<>> THEN referenced
    ELSE Txt(node.prefix \o (IF referenced # Undef THEN StringOf(referenced)
                              ELSE <<"{{">> \o <<node.head>> \o node.path \o <<"}}">>))

\* text of a value in join and append: JSON.stringify for objects (typeof
\* "object", stringify_output defaulting to true), String otherwise
Stringified(val) ==
    IF val.t \in {"object", "array", "null"} THEN JsonOf(val).chars ELSE StringOf(val)

\* join and append that forget the current value of the target
performUpdateOperation_Overwrites(type, currentValue, resolvedValue, join_str) ==
    CASE type = "join" -> [ok |-> TRUE, value |-> Txt(Stringified(resolvedValue))]
      [] type = "update" -> [ok |-> TRUE, value |-> resolvedValue]
      [] type = "append" ->
           IF currentValue.t # "array" THEN [ok |-> FALSE, value |-> Undef]
           ELSE [ok |-> TRUE, value |-> Arr(<<resolvedValue>>)]
      [] OTHER -> [ok |-> FALSE, value |-> Undef]

\* performUpdateOperation: [ok, value]; ok = FALSE is a throw
performUpdateOperation(type, currentValue, resolvedValue, join_str) ==
    CASE type = "join" ->
           [ok |-> TRUE,
            value |-> IF currentValue # Undef
                      THEN Txt(Stringified(currentValue)
                               \o (IF join_str # Undef THEN join_str.chars ELSE <<>>)
                               \o Stringified(resolvedValue))
                      ELSE Txt(Stringified(resolvedValue))]
      [] type = "update" -> [ok |-> TRUE, value |-> resolvedValue]
      [] type = "append" ->
           IF currentValue.t # "array" THEN [ok |-> FALSE, value |-> Undef]
           ELSE [ok |-> TRUE,
                 value |-> Arr(Append(currentValue.items,
                                      IF resolvedValue.t \in {"object", "array", "null"}
                                      THEN JsonOf(resolvedValue) ELSE resolvedValue))]
      [] OTHER -> [ok |-> FALSE, value |-> Undef]

\* the rest of UpdateVariableNodeExecutor.execute once the value is resolved
\* and the current value read: written is what registry.setVariable did
UpdateOutcome(updated, written, currentValue, resolvedValue) ==
    [success |-> updated.ok /\ written.ok,
     registry |-> written.registry,
     output |-> Obj([previous_value |-> currentValue,
                     new_value |-> updated.value,
                     resolved_input |-> resolvedValue]),
     cause |-> IF ~updated.ok THEN "operation" ELSE IF ~written.ok THEN "type" ELSE ""]

\* a registry made by createScopedRegistry
IsScoped(registry) == "eachKey" \in DOMAIN registry

\* the setVariable override of a scoped registry: [ok, registry]; the call is
\* handed to the parent, which may be the scoped registry of an outer loop
RECURSIVE scopedSetVariable(_, _, _)
scopedSetVariable(scopedRegistry, variableId, value) ==
    LET written == IF IsScoped(scopedRegistry.parent)
                   THEN scopedSetVariable(scopedRegistry.parent, variableId, value)
                   ELSE setVariable(scopedRegistry.parent, variableId, value)
    IN  [ok |-> written.ok,
         registry |-> [scopedRegistry EXCEPT !.parent = written.registry]]

\* context.registry.setVariable(variable_id, newValue), reached only when
\* performUpdateOperation returned
WriteUpdate(registry, variable_id, updated) ==
    IF ~updated.ok THEN [ok |-> FALSE, registry |-> registry]
    ELSE IF IsScoped(registry)
    THEN scopedSetVariable(registry, variable_id, updated.value)
    ELSE setVariable(registry, variable_id, updated.value)

UpdateWith(registry, node, currentValue, resolvedValue, updated) ==
    UpdateOutcome(updated, WriteUpdate(registry, node.variable_id, updated),
                  currentValue, resolvedValue)

UpdateResolved(registry, node, currentValue, resolvedValue) ==
    UpdateWith(registry, node, currentValue, resolvedValue,
               performUpdateOperation(node.op, currentValue, resolvedValue, node.join_str))

\* UpdateVariableNodeExecutor.execute
UpdateVariableExecute(registry, node) ==
    UpdateResolved(registry, node, getVariable(registry, node.variable_id),
                   resolveValueExpression(node,
                       resolveExpression(registry, node.head, node.path)))

\* the result of a provider-backed node on success
ProviderOutput == Obj([text |-> Str(7)])

(***************************************************************************)
(* ForEachNodeExecutor.  A FOR_EACH node keeps the token of input.items in *)
(* head and path, config.each_key in each_key and its body in each_nodes;  *)
(* the body nodes are UPDATE_VARIABLE, FOR_EACH or provider-backed nodes.  *)
(* fails is the set of <<iteration, position>> at which a provider call    *)
(* raises.  The parent of a scoped registry is the registry of the flow    *)
(* or, in the body of an outer loop, the scoped registry of that loop.     *)
(***************************************************************************)
\* createScopedRegistry: the parent registry with the overrides of one
\* iteration
createScopedRegistry(parentRegistry, eachKey, currentItem, index) ==
    [parent |-> parentRegistry, eachKey |-> eachKey, currentItem |-> currentItem,
     index |-> index, scopedNodeOutputs |-> <<>>]

RECURSIVE scopedGetNodeOutput(_, _)
scopedGetNodeOutput(scopedRegistry, nodeId) ==
    IF nodeId \in DOMAIN scopedRegistry.scopedNodeOutputs
    THEN scopedRegistry.scopedNodeOutputs[nodeId]
    ELSE IF IsScoped(scopedRegistry.parent)
    THEN scopedGetNodeOutput(scopedRegistry.parent, nodeId)
    ELSE getNodeOutput(scopedRegistry.parent, nodeId)

RECURSIVE scopedSetNodeOutput(_, _, _)
\* the setNodeOutput override that keeps the output in the store of the
\* iteration only
scopedSetNodeOutput_PrivateOnly(scopedRegistry, nodeId, output) ==
    [scopedRegistry EXCEPT !.scopedNodeOutputs = SetKey(@, nodeId, output)]

scopedSetNodeOutput(scopedRegistry, nodeId, output) ==
    [scopedRegistry EXCEPT !.scopedNodeOutputs = SetKey(@, nodeId, output),
                           !.parent = IF IsScoped(@)
                                      THEN scopedSetNodeOutput(@, nodeId, output)
                                      ELSE setNodeOutput(@, nodeId, output)]

RECURSIVE scopedGetVariable(_, _)
scopedGetVariable(scopedRegistry, variableId) ==
    IF variableId = scopedRegistry.eachKey THEN scopedRegistry.currentItem
    ELSE IF variableId = scopedRegistry.eachKey \o "_index" THEN Num(scopedRegistry.index)
    ELSE IF IsScoped(scopedRegistry.parent)
    THEN scopedGetVariable(scopedRegistry.parent, variableId)
    ELSE getVariable(scopedRegistry.parent, variableId)

\* the navigation of a found node output (a missing one is falsy)
NavigateOutput(nodeOutput, path) ==
    IF nodeOutput = Undef THEN Undef ELSE Navigate(nodeOutput, path)

\* the resolveExpression override: the key and the index of this loop, then
\* every dotted expression as a node output reference, and only an
\* expression without a tail goes to the resolveExpression of the parent
RECURSIVE scopedResolveExpression(_, _, _)
scopedResolveExpression(scopedRegistry, head, path) ==
    IF head = scopedRegistry.eachKey THEN Navigate(scopedRegistry.currentItem, path)
    ELSE IF head = scopedRegistry.eachKey \o "_index" THEN Num(scopedRegistry.index)
    ELSE IF path # <<>> THEN NavigateOutput(scopedGetNodeOutput(scopedRegistry, head), path)
    ELSE IF IsScoped(scopedRegistry.parent)
    THEN scopedResolveExpression(scopedRegistry.parent, head, path)
    ELSE resolveExpression(scopedRegistry.parent, head, path)

\* executeWithContext of a body node on the scoped registry: the registry of
\* the result is the scoped registry once the handler returned (setVariable
\* went to the parent); a FOR_EACH in the body runs with the scoped registry
\* as the parent of its own iterations
RECURSIVE ForEachOver(_, _, _, _)
ScopedNodeResult(scopedRegistry, node, raises) ==
    IF node.type = "UPDATE_VARIABLE"
    THEN UpdateResolved(scopedRegistry, node,
                        scopedGetVariable(scopedRegistry, node.variable_id),
                        resolveValueExpression(node,
                            scopedResolveExpression(scopedRegistry, node.head, node.path)))
    ELSE IF node.type = "FOR_EACH"
    THEN ForEachOver(scopedRegistry, node, {},
                     resolveValueExpression(node,
                         scopedResolveExpression(scopedRegistry, node.head, node.path)))
    ELSE IF raises
    THEN [success |-> FALSE, registry |-> scopedRegistry, output |-> Undef,
          cause |-> "provider"]
    ELSE [success |-> TRUE, registry |-> scopedRegistry,
          output |-> ProviderOutput, cause |-> ""]

\* iterationResults.push({...}) for one body node
IterationEntry(eachNode, result) ==
    Obj([nodeId |-> Txt(<<eachNode.id>>),
         result |-> IF result.success THEN result.output ELSE Null,
         success |-> Bool(result.success)])

\* the scoped registry once the handler of a body node returned
Written(scopedRegistry, result) == result.registry

BodyEvent(ev, i, eachNode) == [ev |-> ev, index |-> i, node |-> eachNode.id]

\* the loop over node.each_nodes of iteration i, from position k
RECURSIVE RunBody(_, _, _, _, _, _, _)
\* one pass of the loop once the body node returned result: the push, and
\* setNodeOutput when the node succeeded
BodyStep(scopedRegistry, each_nodes, k, i, fails, iterationResults, trace, result) ==
    IF result.success
    THEN RunBody(scopedSetNodeOutput(Written(scopedRegistry, result),
                                     each_nodes[k].id, result.output),
                 each_nodes, k + 1, i, fails,
                 Append(iterationResults, IterationEntry(each_nodes[k], result)),
                 trace \o <<BodyEvent("start", i, each_nodes[k]),
                            BodyEvent("finish", i, each_nodes[k])>>)
    ELSE RunBody(Written(scopedRegistry, result), each_nodes, k + 1, i, fails,
                 Append(iterationResults, IterationEntry(each_nodes[k], result)),
                 trace \o <<BodyEvent("start", i, each_nodes[k]),
                            BodyEvent("finish", i, each_nodes[k])>>)

RunBody(scopedRegistry, each_nodes, k, i, fails, iterationResults, trace) ==
    IF k > Len(each_nodes)
    THEN [scopedRegistry |-> scopedRegistry, iterationResults |-> iterationResults,
          trace |-> trace]
    ELSE BodyStep(scopedRegistry, each_nodes, k, i, fails, iterationResults, trace,
                  ScopedNodeResult(scopedRegistry, each_nodes[k], <<i, k>> \in fails))

\* the loop over inputList, from index i (0-based, as in the code)
RECURSIVE ForEachItems(_, _, _, _, _, _, _)
\* results.unshift in place of results.push
ForEachNext_Unshift(node, items, i, fails, results, iteration) ==
    ForEachItems(iteration.scopedRegistry.parent, node, items, i + 1, fails,
                 <<Obj([item |-> items[i + 1], index |-> Num(i),
                        results |-> Arr(iteration.iterationResults)])>> \o results,
                 iteration.trace)

ForEachNext(node, items, i, fails, results, iteration) ==
    ForEachItems(iteration.scopedRegistry.parent, node, items, i + 1, fails,
                 Append(results, Obj([item |-> items[i + 1], index |-> Num(i),
                                      results |-> Arr(iteration.iterationResults)])),
                 iteration.trace)

ForEachItems(registry, node, items, i, fails, results, trace) ==
    IF i >= Len(items)
    THEN [success |-> TRUE, registry |-> registry,
          output |-> Obj([total_items |-> Num(Len(items)),
                          processed_items |-> Num(Len(results)),
                          results |-> Arr(results)]),
          cause |-> "", trace |-> trace]
    ELSE ForEachNext(node, items, i, fails, results,
                     RunBody(createScopedRegistry(registry, node.each_key, items[i + 1], i),
                             node.each_nodes, 1, i, fails, <<>>, trace))

ForEachOver(registry, node, fails, inputList) ==
    IF inputList.t # "array"
    THEN [success |-> FALSE, registry |-> registry, output |-> Undef,
          cause |-> "not_array", trace |-> <<>>]
    ELSE ForEachItems(registry, node, inputList.items, 0, fails, <<>>, <<>>)

\* ForEachNodeExecutor.execute
ForEachExecute(registry, node, fails) ==
    ForEachOver(registry, node, fails,
                resolveValueExpression(node,
                    resolveExpression(registry, node.head, node.path)))

(***************************************************************************)
(* ConditionNodeExecutor.  A CONDITION node keeps the token of             *)
(* input.switch_value in head and path and its branches as the sequence of *)
(* [name, condition, value, nodes] in the order the flow document declares *)
(* them.                                                                   *)
(***************************************************************************)
\* the numerals that Number() and the key order of objects tell apart here
Numerals == 0..MaxNumeral

\* the number a text of decimal digits spells, digit by digit
IsDigit(c) == \E d \in 0..9 : ToString(d) = c
RECURSIVE DigitsValue(_, _)
DigitsValue(chars, acc) ==
    IF chars = <<>> THEN acc
    ELSE DigitsValue(Tail(chars),
                     10 * acc + (CHOOSE d \in 0..9 : ToString(d) = Head(chars)))

\* Number(value): [nan, n]; a text is a number when it is empty, one numeral,
\* or decimal digits
ToNumber(val) ==
    CASE val.t = "number" -> [nan |-> FALSE, n |-> val.v]
      [] val.t = "boolean" -> [nan |-> FALSE, n |-> val.v]
      [] val.t = "null" -> [nan |-> FALSE, n |-> 0]
      [] val.t = "string" ->
           IF \A i \in 1..Len(val.chars) : IsDigit(val.chars[i])
           THEN [nan |-> FALSE, n |-> DigitsValue(val.chars, 0)]
           ELSE IF Len(val.chars) = 1 /\ \E n \in Numerals : ToString(n) = val.chars[1]
           THEN [nan |-> FALSE, n |-> CHOOSE n \in Numerals : ToString(n) = val.chars[1]]
           ELSE [nan |-> TRUE, n |-> 0]
      [] OTHER -> [nan |-> TRUE, n |-> 0]

\* switchValue === conditionValue: conditionValue comes from the flow
\* document, so an object or an array is never the same reference
StrictEquals(a, b) == a.t \notin {"object", "array"} /\ a = b

\* String.prototype.includes, for texts spelled character by character
Includes(a, b) ==
    \E i \in 1..(Len(a) - Len(b) + 1) : SubSeq(a, i, i + Len(b) - 1) = b

\* evaluateCondition: [ok, holds]; ok = FALSE is the throw "Unknown condition
\* operator"
evaluateCondition(switchValue, condition, conditionValue) ==
    CASE condition = "equals" ->
           [ok |-> TRUE, holds |-> StrictEquals(switchValue, conditionValue)]
      [] condition = "not_equals" ->
           [ok |-> TRUE, holds |-> ~StrictEquals(switchValue, conditionValue)]
      [] condition = "greater_than" ->
           [ok |-> TRUE,
            holds |-> /\ ~ToNumber(switchValue).nan /\ ~ToNumber(conditionValue).nan
                      /\ ToNumber(switchValue).n > ToNumber(conditionValue).n]
      [] condition = "less_than" ->
           [ok |-> TRUE,
            holds |-> /\ ~ToNumber(switchValue).nan /\ ~ToNumber(conditionValue).nan
                      /\ ToNumber(switchValue).n < ToNumber(conditionValue).n]
      [] condition = "contains" ->
           [ok |-> TRUE,
            holds |-> \/ /\ switchValue.t = "string" /\ conditionValue.t = "string"
                         /\ Includes(switchValue.chars, conditionValue.chars)
                      \/ /\ switchValue.t = "array"
                         /\ \E i \in 1..Len(switchValue.items) :
                                StrictEquals(switchValue.items[i], conditionValue)]
      [] OTHER -> [ok |-> FALSE, holds |-> FALSE]

\* UpdateVariableNodeExecutor.evaluateCondition, the test of the filter
\* operation: [ok, holds]; ok = FALSE is the throw "Unknown condition
\* operator"
filterEvaluateCondition(fieldValue, operator, compareValue) ==
    CASE operator = "equals" ->
           [ok |-> TRUE, holds |-> StrictEquals(fieldValue, compareValue)]
      [] operator = "not_equals" ->
           [ok |-> TRUE, holds |-> ~StrictEquals(fieldValue, compareValue)]
      [] operator = "contains" ->
           [ok |-> TRUE,
            holds |-> \/ /\ fieldValue.t = "string" /\ compareValue.t = "string"
                         /\ Includes(fieldValue.chars, compareValue.chars)
                      \/ /\ fieldValue.t = "array"
                         /\ \E i \in 1..Len(fieldValue.items) :
                                StrictEquals(fieldValue.items[i], compareValue)]
      [] operator = "greater_than" ->
           [ok |-> TRUE,
            holds |-> /\ TypeOf(fieldValue) = "number" /\ TypeOf(compareValue) = "number"
                      /\ fieldValue.v > compareValue.v]
      [] operator = "less_than" ->
           [ok |-> TRUE,
            holds |-> /\ TypeOf(fieldValue) = "number" /\ TypeOf(compareValue) = "number"
                      /\ fieldValue.v < compareValue.v]
      [] OTHER -> [ok |-> FALSE, holds |-> FALSE]

\* the array index a property name spells, or -1
KeyIndex(name) ==
    IF \E n \in Numerals : ToString(n) = name
    THEN CHOOSE n \in Numerals : ToString(n) = name ELSE -1

\* the positions of a set of integer-like keys in ascending key order
RECURSIVE AscendingKeys(_, _)
AscendingKeys(branches, positions) ==
    IF positions = {} THEN <<>>
    ELSE LET least == CHOOSE k \in positions : \A j \in positions :
                          KeyIndex(branches[k].name) <= KeyIndex(branches[j].name)
         IN  <<least>> \o AscendingKeys(branches, positions \ {least})

\* Object.entries(branches), as positions in the declared sequence: the
\* integer-like keys come first in ascending order, then the other keys in
\* the order of declaration
ObjectEntries(branches) ==
    AscendingKeys(branches, {k \in 1..Len(branches) : KeyIndex(branches[k].name) >= 0})
    \o SelectSeq([k \in 1..Len(branches) |-> k],
                 LAMBDA k : KeyIndex(branches[k].name) < 0)

\* the for loop of findMatchingBranch over entries, from position e:
\* [ok, k], k = 0 when no condition matched
RECURSIVE MatchFrom(_, _, _, _)
MatchStep(switchValue, branches, entries, e, evaluated) ==
    IF ~evaluated.ok THEN [ok |-> FALSE, k |-> 0]
    ELSE IF evaluated.holds THEN [ok |-> TRUE, k |-> entries[e]]
    ELSE MatchFrom(switchValue, branches, entries, e + 1)

MatchFrom(switchValue, branches, entries, e) ==
    IF e > Len(entries) THEN [ok |-> TRUE, k |-> 0]
    ELSE IF branches[entries[e]].name = "default"
    THEN MatchFrom(switchValue, branches, entries, e + 1)
    ELSE MatchStep(switchValue, branches, entries, e,
                   evaluateCondition(switchValue, branches[entries[e]].condition,
                                     branches[entries[e]].value))

\* branches.default, as a position (0 when absent)
DefaultBranch(branches) ==
    IF \E k \in 1..Len(branches) : branches[k].name = "default"
    THEN CHOOSE k \in 1..Len(branches) : branches[k].name = "default" ELSE 0

\* findMatchingBranch: [ok, k]; ok = FALSE is a throw of evaluateCondition,
\* k = 0 is null
FallBackToDefault(branches, matched) ==
    IF matched.ok /\ matched.k = 0
    THEN [ok |-> TRUE, k |-> DefaultBranch(branches)] ELSE matched

findMatchingBranch(switchValue, branches) ==
    FallBackToDefault(branches,
                      MatchFrom(switchValue, branches, ObjectEntries(branches), 1))

\* executeWithContext of a branch node, on the registry of the flow
BranchNodeResult(registry, node, raises) ==
    IF node.type = "UPDATE_VARIABLE" THEN UpdateVariableExecute(registry, node)
    ELSE IF raises
    THEN [success |-> FALSE, registry |-> registry, output |-> Undef, cause |-> "provider"]
    ELSE [success |-> TRUE, registry |-> registry, output |-> ProviderOutput, cause |-> ""]

\* the loop over matchingBranch.branch.nodes, from position k
RECURSIVE RunBranch(_, _, _, _, _, _, _)
BranchStep(registry, branchName, nodes, k, fails, results, trace, result) ==
    RunBranch(result.registry, branchName, nodes, k + 1, fails,
              Append(results, Obj([success |-> Bool(result.success),
                                   output |-> result.output])),
              Append(trace, [ev |-> "branch", branch |-> branchName, node |-> nodes[k].id]))

RunBranch(registry, branchName, nodes, k, fails, results, trace) ==
    IF k > Len(nodes)
    THEN [success |-> TRUE, registry |-> registry,
          output |-> Obj([matched_branch |-> Txt(<<branchName>>),
                          results |-> Arr(results)]),
          cause |-> "", trace |-> trace]
    ELSE BranchStep(registry, branchName, nodes, k, fails, results, trace,
                    BranchNodeResult(registry, nodes[k], <<1, k>> \in fails))

ConditionMatched(registry, node, fails, matched) ==
    IF ~matched.ok
    THEN [success |-> FALSE, registry |-> registry, output |-> Undef,
          cause |-> "operator", trace |-> <<>>]
    ELSE IF matched.k = 0
    THEN [success |-> TRUE, registry |-> registry,
          output |-> Obj([matched_branch |-> Null, results |-> Arr(<<>>)]),
          cause |-> "", trace |-> <<>>]
    ELSE RunBranch(registry, node.branches[matched.k].name,
                   node.branches[matched.k].nodes, 1, fails, <<>>, <<>>)

\* ConditionNodeExecutor.execute
ConditionExecute(registry, node, fails) ==
    ConditionMatched(registry, node, fails,
        findMatchingBranch(
            resolveValueExpression(node, resolveExpression(registry, node.head, node.path)),
            node.branches))

\* the provider calls a nesting node can make: <<iteration, position>> for
\* the body of a FOR_EACH, <<1, position>> for the branches of a CONDITION
ProviderCalls(node) ==
    IF node.type = "FOR_EACH"
    THEN {<<i, k>> : i \in 0..(MaxItems - 1),
                     k \in {p \in 1..Len(node.each_nodes) :
                               node.each_nodes[p].type
                                   \notin {"UPDATE_VARIABLE", "FOR_EACH"}}}
    ELSE UNION {{<<1, k>> : k \in {p \in 1..Len(node.branches[b].nodes) :
                                      node.branches[b].nodes[p].type # "UPDATE_VARIABLE"}} :
                b \in 1..Len(node.branches)}

\* BaseNode.executeWithContext: the possible NodeExecutionResults of a node;
\* a provider call (LLM, embeddings) succeeds or raises
NodeResults(registry, node) ==
    IF node.type = "UPDATE_VARIABLE"
    THEN {UpdateVariableExecute(registry, node)}
    ELSE IF node.type = "FOR_EACH"
    THEN {ForEachExecute(registry, node, fails) : fails \in SUBSET ProviderCalls(node)}
    ELSE IF node.type = "CONDITION"
    THEN {ConditionExecute(registry, node, fails) : fails \in SUBSET ProviderCalls(node)}
    ELSE {[success |-> TRUE, registry |-> registry, output |-> ProviderOutput, cause |-> ""],
          [success |-> FALSE, registry |-> registry, output |-> Undef, cause |-> "provider"]}

(***************************************************************************)
(* FlowExecutor: the synchronous segments                                  *)
(* S is the executor state inside a segment: a record of the executor      *)
(* variables.                                                              *)
(***************************************************************************)
Ids == 1..(MaxFlows + MaxSpawned)

NoError == [kind |-> "", node |-> "", detail |-> ""]
NoPromise == [state |-> "none", calls |-> 0, error |-> NoError, outputs |-> <<>>]
NoFrame == [pc |-> "none", order |-> <<>>, k |-> 0, pending |-> "",
            registry |-> EmptyRegistry, outputs |-> <<>>, atFinish |-> <<>>,
            stoppedAt |-> 0, cause |-> "", failedAt |-> 0, nested |-> {}]

Ev(name, nodeId) == [ev |-> name, node |-> nodeId]

\* resolve(result) / reject(error) of the promise made in executeFlow: a
\* promise keeps its first settlement
Resolve(S, id, outputs) ==
    [S EXCEPT !.promise[id] =
        IF @.state = "pending"
        THEN [state |-> "resolved", calls |-> @.calls + 1, error |-> NoError,
              outputs |-> outputs]
        ELSE [@ EXCEPT !.calls = @ + 1]]

Reject(S, id, error) ==
    [S EXCEPT !.promise[id] =
        IF @.state = "pending"
        THEN [state |-> "rejected", calls |-> @.calls + 1, error |-> error,
              outputs |-> <<>>]
        ELSE [@ EXCEPT !.calls = @ + 1]]

\* NodeFactory static block: VECTOR_UPDATE and VECTOR_DELETE are not registered
RegisteredTypes == {"LLM", "UPDATE_VARIABLE", "VECTOR_INSERT", "VECTOR_SEARCH",
                    "TEXT_EMBEDDING", "CONDITION", "DOCUMENT_SPLITTER", "FOR_EACH"}

validateRegistrations(nodes) == \A i \in 1..Len(nodes) : nodes[i].type \in RegisteredTypes

\* getExecutionOrder: ok = FALSE is the throw "No execution order determined"
OrderOrThrow(executionOrder) == [ok |-> Len(executionOrder) # 0, order |-> executionOrder]

\* validation.dependencyGraph?.executionOrder || []
OrderOf(validation) == IF validation.hasGraph THEN validation.executionOrder ELSE <<>>

getExecutionOrder(flow) == OrderOrThrow(OrderOf(validateFlow(flow)))

\* collectOutputs skipping the declared outputs that hold no value
collectOutputs_DefinedOnly(flow, registry) ==
    [outputVarId \in Range(flow.output) \cap DOMAIN registry.variables |->
        getVariable(registry, outputVarId)]

\* collectOutputs: one key per declared output id, read with getVariable
collectOutputs(flow, registry) ==
    [outputVarId \in Range(flow.output) |-> getVariable(registry, outputVarId)]

FindNode(flow, nodeId) ==
    flow.nodes[CHOOSE i \in 1..Len(flow.nodes) :
                   flow.nodes[i].id = nodeId /\ \A j \in 1..(i-1) : flow.nodes[j].id # nodeId]

\* the flow a beforeNode hook submits when it calls executeFlow itself
SpawnedFlow ==
    [header |-> TRUE, variables |-> <<>>, output |-> <<>>,
     nodes |-> <<[id |-> "A", type |-> "UPDATE_VARIABLE", head |-> "", path |-> <<>>,
                  variable_id |-> "x", lit |-> Num(1),
                  op |-> "update", join_str |-> Undef, prefix |-> <<>>]>>]

SpawnedJob == [flow |-> SpawnedFlow, inputVariables |-> <<>>, hooks |-> FALSE, spawn |-> 0]

\* the number of flows submitted by hooks so far
Spawned(S) == Cardinality({id \in 1..S.executionCounter : S.job[id] = SpawnedJob})

RECURSIVE ProcessQueueOp(_), QueueLoop(_, _, _), ExecuteFlowInternal(_, _),
          ExecuteFlowOp(_, _), HookSubmits(_, _)

\* the finally block of executeFlowInternal
Finally(S, id) ==
    ProcessQueueOp([S EXCEPT !.frame[id].registry = ClearRegistry(@),
                             !.frame[id].pc = "done",
                             !.runningFlows = @ \ {id}])

\* the catch block of executeFlowInternal followed by finally
CatchFinally(S, id, error) == Finally(Reject(S, id, error), id)

\* queuedFlow.resolve(result) followed by finally
ResolveFinally(S, id) == Finally(Resolve(S, id, S.frame[id].outputs), id)

\* executeNodes, top of the loop body for executionOrder[k]: the beforeNode
\* hook is called, then the segment ends at the await of the hook or of the
\* node.  first marks the segment that started the flow, which runs inside
\* the loop of processQueue: executeFlow calls made by the hook there are
\* evaluated on the spot.
EnterNode(S, id, k, first) ==
    LET nodeId == S.frame[id].order[k]
        S1 == [S EXCEPT !.frame[id].k = k, !.frame[id].pc = "handler",
                        !.frame[id].pending = "",
                        !.events[id] = IF S.job[id].hooks
                                       THEN Append(@, Ev("beforeNode", nodeId)) ELSE @]
    IN  IF first /\ S.job[id].hooks THEN HookSubmits(S1, S.job[id].spawn) ELSE S1

HookSubmits(S, n) ==
    IF n = 0 \/ Spawned(S) >= MaxSpawned THEN S
    ELSE HookSubmits(ExecuteFlowOp(S, SpawnedJob), n - 1)

\* after the loop of executeNodes: collectOutputs, then the onComplete hook
AfterLoop(S, id) ==
    LET outputs == collectOutputs(S.job[id].flow, S.frame[id].registry)
        S1 == [S EXCEPT !.frame[id].outputs = outputs,
                        !.frame[id].atFinish = S.frame[id].registry.variables]
    IN  IF S.job[id].hooks
        THEN [S1 EXCEPT !.frame[id].pc = "complete",
                        !.frame[id].pending = "onComplete",
                        !.events[id] = Append(@, Ev("onComplete", ""))]
        ELSE ResolveFinally(S1, id)

\* the next iteration of the loop of executeNodes, or its end
NextIteration(S, id) ==
    IF S.frame[id].k < Len(S.frame[id].order)
    THEN EnterNode(S, id, S.frame[id].k + 1, FALSE)
    ELSE AfterLoop(S, id)

NodeError(nodeId, cause) == [kind |-> "node", node |-> nodeId, detail |-> cause]

\* the catch (hookError) block around a hook call: logger.warn, which changes
\* nothing in the executor
Caught(S, id) == S

\* the throw at the end of the catch block of executeNodes, with a message
\* that names neither the node nor the cause
ThrowNodeError_Unnamed(S, id) ==
    CatchFinally([S EXCEPT !.frame[id].failedAt = S.frame[id].k], id,
                 NodeError("", ""))

\* throw new Error(`Node ${nodeId} execution failed: ${message}`) at the end
\* of the catch block of executeNodes, caught by executeFlowInternal
ThrowNodeError(S, id) ==
    CatchFinally([S EXCEPT !.frame[id].failedAt = S.frame[id].k], id,
                 NodeError(S.frame[id].order[S.frame[id].k], S.frame[id].cause))

\* executeFlowInternal after runningFlows.add, from the construction of the
\* registry (created) and getExecutionOrder (executionOrder) to the first await
StartFlow(S1, id, created, executionOrder) ==
    LET S2 == [S1 EXCEPT !.frame[id] = [NoFrame EXCEPT !.registry = created.registry,
                                                       !.order = executionOrder.order]]
    IN  IF ~created.ok
        THEN \* the constructor throws before the try block: the async function
             \* ends with a rejection nobody observes
             [S1 EXCEPT !.frame[id] = [NoFrame EXCEPT !.pc = "abandoned"]]
        ELSE IF ~executionOrder.ok
        THEN CatchFinally(S2, id, [kind |-> "order", node |-> "", detail |-> ""])
        ELSE EnterNode(S2, id, 1, TRUE)

\* executeFlowInternal from its call to its first await
ExecuteFlowInternal(S, id) ==
    StartFlow([S EXCEPT !.runningFlows = @ \cup {id}], id,
              NewRegistry(S.job[id].flow, S.job[id].inputVariables),
              getExecutionOrder(S.job[id].flow))

\* processQueue: availableSlots is computed once, before the loop
QueueLoop(S, i, availableSlots) ==
    IF i < availableSlots /\ Len(S.executionQueue) > 0
    THEN QueueLoop(ExecuteFlowInternal([S EXCEPT !.executionQueue = Tail(@)],
                                       Head(S.executionQueue)),
                   i + 1, availableSlots)
    ELSE S

ProcessQueueOp(S) ==
    LET availableSlots == S.globalLimit - Cardinality(S.runningFlows)
    IN  IF availableSlots <= 0 \/ Len(S.executionQueue) = 0 THEN S
        ELSE QueueLoop(S, 0, availableSlots)

\* executeFlow after FlowValidator.validateFlow returned validation
Submit(S, j, validation) ==
    LET flowId == S.executionCounter + 1
        S1 == [S EXCEPT !.executionCounter = flowId,
                        !.job[flowId] = j,
                        !.promise[flowId] = [NoPromise EXCEPT !.state = "pending"]]
    IN  IF ~validation.isValid
        THEN Reject(S1, flowId, [kind |-> "validation", node |-> "",
                                 detail |-> validation.errors[1].code])
        ELSE IF ~validateRegistrations(j.flow.nodes)
        THEN Reject(S1, flowId, [kind |-> "unsupported", node |-> "", detail |-> ""])
        ELSE ProcessQueueOp([S1 EXCEPT !.executionQueue = Append(@, flowId)])

\* executeFlow queueing the flow without looking at the validation result
ExecuteFlowOp_SkipValidation(S, j) ==
    LET flowId == S.executionCounter + 1
        S1 == [S EXCEPT !.executionCounter = flowId,
                        !.job[flowId] = j,
                        !.promise[flowId] = [NoPromise EXCEPT !.state = "pending"]]
    IN  ProcessQueueOp([S1 EXCEPT !.executionQueue = Append(@, flowId)])

\* executeFlow(flowJson, inputVariables, hooks)
ExecuteFlowOp(S, j) == Submit(S, j, validateFlow(j.flow))

\* a nested node of the output of a FOR_EACH or CONDITION handler failed:
\* some pushed result has success false
FailedEntries(entries) ==
    \E k \in 1..Len(entries) : /\ "success" \in DOMAIN entries[k].fields
                               /\ entries[k].fields.success = Bool(FALSE)

NestedFailure(output) ==
    /\ output.t = "object"
    /\ "results" \in DOMAIN output.fields
    /\ \/ FailedEntries(output.fields.results.items)
       \/ \E i \in 1..Len(output.fields.results.items) :
              /\ "results" \in DOMAIN output.fields.results.items[i].fields
              /\ FailedEntries(output.fields.results.items[i].fields.results.items)

\* the failed result stored as the output of the node all the same
HandlerFailed_Recorded(S, id, result) ==
    [S EXCEPT !.frame[id].registry =
                  setNodeOutput(result.registry, S.frame[id].order[S.frame[id].k],
                                result.output),
              !.frame[id].cause = result.cause]

\* throw result.error in executeNodes: control passes to the catch block,
\* setNodeOutput is skipped
HandlerFailed(S, id, result) ==
    [S EXCEPT !.frame[id].registry = result.registry,
              !.frame[id].cause = result.cause]

\* the await of beforeNode ends: the hook returned, or threw
BeforeNodeDone(S, id, threw) == IF threw THEN Caught(S, id) ELSE S

\* the segment after executeNode where the failure of the handler is found
\* only after afterNode was called
HandlerDone_AfterNodeFirst(S, id, result) ==
    LET nodeId == S.frame[id].order[S.frame[id].k]
        S1 == [S EXCEPT !.events[id] = Append(@, Ev("handler", nodeId))]
    IN  IF result.success
        THEN LET S2 == [S1 EXCEPT !.frame[id].registry =
                                      setNodeOutput(result.registry, nodeId, result.output),
                                  !.frame[id].nested =
                                      IF NestedFailure(result.output)
                                      THEN @ \cup {nodeId} ELSE @]
             IN  IF S.job[id].hooks
                 THEN [S2 EXCEPT !.frame[id].pc = "signal",
                                 !.frame[id].pending = "afterNode",
                                 !.events[id] = Append(@, Ev("afterNode", nodeId))]
                 ELSE NextIteration(S2, id)
        ELSE LET S2 == HandlerFailed(S1, id, result)
             IN  IF S.job[id].hooks
                 THEN [S2 EXCEPT !.frame[id].pc = "signal",
                                 !.frame[id].pending = "onError",
                                 !.events[id] = @ \o <<Ev("afterNode", nodeId),
                                                       Ev("onError", nodeId)>>]
                 ELSE ThrowNodeError(S2, id)

\* the segment that resumes after executeNode: the handler's result is known,
\* the output is recorded and afterNode called, or onError called
HandlerDone(S, id, result) ==
    LET nodeId == S.frame[id].order[S.frame[id].k]
        S1 == [S EXCEPT !.events[id] = Append(@, Ev("handler", nodeId))]
    IN  IF result.success
        THEN LET S2 == [S1 EXCEPT !.frame[id].registry =
                                      setNodeOutput(result.registry, nodeId, result.output),
                                  !.frame[id].nested =
                                      IF NestedFailure(result.output)
                                      THEN @ \cup {nodeId} ELSE @]
             IN  IF S.job[id].hooks
                 THEN [S2 EXCEPT !.frame[id].pc = "signal",
                                 !.frame[id].pending = "afterNode",
                                 !.events[id] = Append(@, Ev("afterNode", nodeId))]
                 ELSE NextIteration(S2, id)
        ELSE LET S2 == HandlerFailed(S1, id, result)
             IN  IF S.job[id].hooks
                 THEN [S2 EXCEPT !.frame[id].pc = "signal",
                                 !.frame[id].pending = "onError",
                                 !.events[id] = Append(@, Ev("onError", nodeId))]
                 ELSE ThrowNodeError(S2, id)

\* the segment that resumes after the await of afterNode or onError;
\* signal "throw" is the hook raising, which is caught and logged
HookSignals == {"continue", "stop", "none", "throw"}

\* the afterNode signal read without the break
SignalDone_NoBreak(S, id, signal) ==
    LET nodeId == S.frame[id].order[S.frame[id].k]
    IN  IF S.frame[id].pending = "afterNode"
        THEN IF signal = "stop"
             THEN NextIteration([S EXCEPT !.frame[id].stoppedAt = S.frame[id].k], id)
             ELSE NextIteration(S, id)
        ELSE IF signal = "continue"
             THEN NextIteration(S, id)
             ELSE ThrowNodeError(S, id)

SignalDone(S, id, signal) ==
    LET S1 == IF signal = "throw" THEN Caught(S, id) ELSE S
    IN  IF S.frame[id].pending = "afterNode"
        THEN IF signal = "stop"
             THEN AfterLoop([S EXCEPT !.frame[id].stoppedAt = S.frame[id].k], id)
             ELSE NextIteration(S1, id)
        ELSE IF signal = "continue"
             THEN NextIteration(S, id)
             ELSE ThrowNodeError(S1, id)

\* the await of onComplete ends with the exception of the hook becoming the
\* error of the flow
CompleteDone_Fatal(S, id, threw) ==
    IF threw THEN CatchFinally(S, id, [kind |-> "hook", node |-> "", detail |-> ""])
    ELSE ResolveFinally(S, id)

\* the segment that resumes after the await of onComplete: the hook
\* returned, or threw and the exception was caught and logged
CompleteDone(S, id, threw) ==
    ResolveFinally(IF threw THEN Caught(S, id) ELSE S, id)

\* shutdown(), up to its first await: every queued flow is rejected
RECURSIVE RejectQueued(_)
RejectQueued(S) ==
    IF Len(S.executionQueue) = 0 THEN S
    ELSE RejectQueued(Reject([S EXCEPT !.executionQueue = Tail(@)],
                             Head(S.executionQueue),
                             [kind |-> "shutdown", node |-> "", detail |-> ""]))

(***************************************************************************)
(* Submitted flows                                                         *)
(***************************************************************************)
\* an UPDATE_VARIABLE node: config.type op, config.join_str, and value, which
\* is the literal lit, or prefix followed by the token {{head.path}}
UVNode(id, op, variable_id, join_str, prefix, head, path, lit) ==
    [id |-> id, type |-> "UPDATE_VARIABLE", head |-> head, path |-> path,
     variable_id |-> variable_id, lit |-> lit,
     op |-> op, join_str |-> join_str, prefix |-> prefix]

UV(id, head, path, variable_id, lit) ==
    UVNode(id, "update", variable_id, Undef, <<>>, head, path, lit)

Provider(id, type, head, path) ==
    [id |-> id, type |-> type, head |-> head, path |-> path,
     variable_id |-> "", lit |-> Undef,
     op |-> "", join_str |-> Undef, prefix |-> <<>>]

\* a FOR_EACH node: input.items is the token {{head.path}}
ForEach(id, head, path, each_key, each_nodes) ==
    [id |-> id, type |-> "FOR_EACH", head |-> head, path |-> path,
     variable_id |-> "", lit |-> Undef, op |-> "", join_str |-> Undef, prefix |-> <<>>,
     each_key |-> each_key, each_nodes |-> each_nodes]

\* a CONDITION node: input.switch_value is the token {{head.path}}
Branch(name, condition, value, nodes) ==
    [name |-> name, condition |-> condition, value |-> value, nodes |-> nodes]

Condition(id, head, path, branches) ==
    [id |-> id, type |-> "CONDITION", head |-> head, path |-> path,
     variable_id |-> "", lit |-> Undef, op |-> "", join_str |-> Undef, prefix |-> <<>>,
     branches |-> branches]

DeclX == [id |-> "x", type |-> "number", default |-> Num(0)]
DeclY == [id |-> "y", type |-> "", default |-> Undef]

\* header field missing
FlowInvalid == [header |-> FALSE, variables |-> <<>>, output |-> <<>>, nodes |-> <<>>]

\* structurally valid, no node
FlowEmpty == [header |-> TRUE, variables |-> <<DeclX>>, output |-> <<"x">>, nodes |-> <<>>]

\* node_a.value = {{node_b.output}}, node_b.value = {{node_a.output}}
FlowCycle ==
    [header |-> TRUE, variables |-> <<DeclY>>, output |-> <<"y">>,
     nodes |-> <<UV("A", "B", <<"output">>, "y", Undef),
                 UV("B", "A", <<"output">>, "y", Undef)>>]

\* A sets x, B copies what A wrote into y
FlowTwo ==
    [header |-> TRUE, variables |-> <<DeclX, DeclY>>, output |-> <<"x", "y">>,
     nodes |-> <<UV("A", "", <<>>, "x", Num(1)),
                 UV("B", "A", <<"new_value">>, "y", Undef)>>]

\* B is declared first and reads {{A.output.text}} in its input.text
FlowEmbed ==
    [header |-> TRUE, variables |-> <<DeclY>>, output |-> <<"y">>,
     nodes |-> <<Provider("B", "TEXT_EMBEDDING", "A", <<"output", "text">>),
                 Provider("A", "LLM", "", <<>>)>>]

\* A writes the string "1" into x, declared number
FlowMistyped ==
    [header |-> TRUE, variables |-> <<DeclX>>, output |-> <<"x">>,
     nodes |-> <<UV("A", "", <<>>, "x", Str(1)),
                 UV("B", "", <<>>, "x", Num(2))>>]

DeclList == [id |-> "list", type |-> "array", default |-> Arr(<<Num(1), Num(2)>>)]

\* L iterates over list; its body appends {{current}} to x, which holds a
\* number
FlowLoop ==
    [header |-> TRUE, variables |-> <<DeclX, DeclList>>, output |-> <<"x">>,
     nodes |-> <<ForEach("L", "list", <<>>, "current",
                         <<UVNode("S", "append", "x", Undef, <<>>, "current", <<>>, Undef)>>)>>]

\* C switches on x; the branch that fires appends 1 to x, which holds a number
FlowBranch ==
    [header |-> TRUE, variables |-> <<DeclX>>, output |-> <<"x">>,
     nodes |-> <<Condition("C", "x", <<>>,
                           <<Branch("low", "less_than", Num(1),
                                    <<UVNode("S", "append", "x", Undef, <<>>, "", <<>>,
                                             Num(1))>>)>>)>>]

NewJob(flow, inputVariables, hooks, spawn) ==
    [flow |-> flow, inputVariables |-> inputVariables, hooks |-> hooks, spawn |-> spawn]

Jobs ==
    {NewJob(f, <<>>, FALSE, 0) : f \in {FlowInvalid, FlowEmpty, FlowCycle, FlowEmbed}}
    \cup {NewJob(f, <<>>, TRUE, 0) : f \in {FlowTwo, FlowMistyped, FlowLoop}}
    \cup {NewJob(FlowBranch, <<>>, FALSE, 0)}
    \cup {NewJob(FlowTwo, <<[id |-> "x", value |-> Str(42)]>>, FALSE, 0),
          NewJob(SpawnedFlow, <<>>, TRUE, 2)}

NoJob == NewJob(FlowInvalid, <<>>, FALSE, 0)

(***************************************************************************)
(* The executor specification                                              *)
(***************************************************************************)
State == [globalLimit |-> globalLimit, executionQueue |-> executionQueue,
          runningFlows |-> runningFlows, executionCounter |-> executionCounter,
          job |-> job, promise |-> promise, frame |-> frame, events |-> events]

NoShutdown == [pc |-> "idle", attempts |-> 0, forced |-> FALSE, rejected |-> {}]
NoCall == [node |-> Provider("", "LLM", "", <<>>), registry |-> EmptyRegistry, fails |-> {}]
NoHandlerResult == [success |-> FALSE, registry |-> EmptyRegistry, output |-> Undef,
                    cause |-> "not called", trace |-> <<>>]

\* the executor variables after a segment that ends in S
Becomes0(S) ==
    /\ globalLimit' = S.globalLimit
    /\ executionQueue' = S.executionQueue
    /\ runningFlows' = S.runningFlows
    /\ executionCounter' = S.executionCounter
    /\ job' = S.job
    /\ promise' = S.promise
    /\ frame' = S.frame
    /\ events' = S.events

Becomes(S) == Becomes0(S) /\ UNCHANGED <<vflow, vresult, shutdownCall, hcall, hresult>>

NoResult == [isValid |-> FALSE, errors |-> <<>>, warnings |-> <<>>,
             hasGraph |-> FALSE, executionOrder |-> <<"?">>]

Init ==
    /\ globalLimit \in 1..MaxLimit
    /\ executionQueue = <<>>
    /\ runningFlows = {}
    /\ executionCounter = 0
    /\ job = [id \in Ids |-> NoJob]
    /\ promise = [id \in Ids |-> NoPromise]
    /\ frame = [id \in Ids |-> NoFrame]
    /\ events = [id \in Ids |-> <<>>]
    /\ vflow = FlowEmpty
    /\ vresult = NoResult
    /\ shutdownCall = NoShutdown
    /\ hcall = NoCall
    /\ hresult = NoHandlerResult

\* a caller calls executeFlow
ExecuteFlow(j) ==
    /\ executionCounter - Spawned(State) < MaxFlows
    /\ Becomes(ExecuteFlowOp(State, j))

\* a node handler finishes and executeNodes resumes
RunHandler(id) ==
    /\ frame[id].pc = "handler"
    /\ \E threw \in (IF job[id].hooks THEN BOOLEAN ELSE {FALSE}) :
       \E result \in NodeResults(frame[id].registry,
                                 FindNode(job[id].flow, frame[id].order[frame[id].k])) :
           Becomes(HandlerDone(BeforeNodeDone(State, id, threw), id, result))

\* afterNode or onError returns and executeNodes resumes
HookReturns(id) ==
    /\ frame[id].pc = "signal"
    /\ \E signal \in HookSignals : Becomes(SignalDone(State, id, signal))

\* onComplete returns (or throws) and executeFlowInternal resumes
CompleteReturns(id) ==
    /\ frame[id].pc = "complete"
    /\ \E threw \in BOOLEAN : Becomes(CompleteDone(State, id, threw))

\* a caller calls shutdown
Shutdown ==
    /\ Len(executionQueue) > 0
    /\ Becomes(RejectQueued(State))

Next ==
    \/ \E j \in Jobs : ExecuteFlow(j)
    \/ \E id \in Ids : RunHandler(id)
    \/ \E id \in Ids : HookReturns(id)
    \/ \E id \in Ids : CompleteReturns(id)
    \/ Shutdown

Spec == Init /\ [][Next]_vars

(***************************************************************************)
(* The validator specification: validateFlow applied to every flow of up   *)
(* to MaxNodes nodes whose ids are given by position, each node of any     *)
(* modelled type with no reference or one reference to a node id, to the   *)
(* declared variable x or to the unknown name zz.                          *)
(***************************************************************************)
NodeIdAt == <<"A", "B", "C", "D">>

GenHeads == {NodeIdAt[i] : i \in 1..MaxNodes} \cup {"x", "zz"}
GenPaths == {<<>>, <<"output">>, <<"data">>}

GenShapes ==
    {[type |-> type, head |-> "", path |-> <<>>] : type \in NodeTypes}
    \cup {[type |-> type, head |-> head, path |-> path] :
            type \in NodeTypes, head \in GenHeads, path \in GenPaths}

GenFlow(shapes) ==
    [header |-> TRUE, variables |-> <<DeclX>>, output |-> <<"x">>,
     nodes |-> [i \in 1..Len(shapes) |->
                   Node(NodeIdAt[i], shapes[i].type, shapes[i].head, shapes[i].path)]]

\* Flows with nested nodes.  A is a top-level node; L iterates with each_key
\* row over a body of S and M; M iterates over {{row.cells}} with each_key
\* cell over a body of P.  S and P hold any reference of the catalogue, and
\* their ids may repeat the id of another node.
LoopHeads == {"row", "row_index", "cell", "cell_index", "S", "P", "M", "A", "L", "x", "zz"}
LoopPaths == {<<>>, <<"data">>}

LoopFlow(sid, shead, pid, phead, ppath) ==
    [header |-> TRUE, variables |-> <<DeclX>>, output |-> <<"x">>,
     nodes |-> <<UV("A", "", <<>>, "x", Num(1)),
                 ForEach("L", "x", <<>>, "row",
                     <<UV(sid, shead, <<>>, "x", Num(1)),
                       ForEach("M", "row", <<"cells">>, "cell",
                           <<UV(pid, phead, ppath, "x", Num(1))>>)>>)>>]

LoopFlows ==
    {LoopFlow(sid, shead, pid, phead, ppath) :
        sid \in {"S", "A"}, shead \in {"", "row", "zz"},
        pid \in {"P", "S"}, phead \in LoopHeads, ppath \in LoopPaths}

\* C switches on x; its branch b holds Q; the id of Q and the id of the first
\* node may repeat the id of another node; the variable x may be declared
\* twice
BranchFlow(variables, aid, qid, qhead, qpath) ==
    [header |-> TRUE, variables |-> variables, output |-> <<"x">>,
     nodes |-> <<UV(aid, "", <<>>, "x", Num(1)),
                 Condition("C", "x", <<>>,
                     <<Branch("b", "equals", Num(1),
                              <<UV(qid, qhead, qpath, "x", Num(1))>>)>>)>>]

BranchFlows ==
    {BranchFlow(variables, aid, qid, qhead, qpath) :
        variables \in {<<DeclX>>, <<DeclX, DeclX>>}, aid \in {"A", "C"},
        qid \in {"Q", "A", "C"}, qhead \in {"", "A", "x", "zz"}, qpath \in LoopPaths}

\* three UPDATE_VARIABLE nodes A, B, C, each with a literal value or with the
\* value {{head.output}} for one of the three ids
OrderFlows ==
    {[header |-> TRUE, variables |-> <<DeclX>>, output |-> <<"x">>,
      nodes |-> <<UV("A", a, IF a = "" THEN <<>> ELSE <<"output">>, "x", Num(1)),
                  UV("B", b, IF b = "" THEN <<>> ELSE <<"output">>, "x", Num(1)),
                  UV("C", c, IF c = "" THEN <<>> ELSE <<"output">>, "x", Num(1))>>] :
        a \in {"", "A", "B", "C"}, b \in {"", "A", "B", "C"}, c \in {"", "A", "B", "C"}}

InitV ==
    /\ globalLimit = 1
    /\ executionQueue = <<>>
    /\ runningFlows = {}
    /\ executionCounter = 0
    /\ job = [id \in Ids |-> NoJob]
    /\ promise = [id \in Ids |-> NoPromise]
    /\ frame = [id \in Ids |-> NoFrame]
    /\ events = [id \in Ids |-> <<>>]
    /\ \/ \E n \in 0..MaxNodes : \E shapes \in [1..n -> GenShapes] : vflow = GenFlow(shapes)
       \/ vflow \in LoopFlows \cup BranchFlows \cup OrderFlows
    /\ vresult = NoResult
    /\ shutdownCall = NoShutdown
    /\ hcall = NoCall
    /\ hresult = NoHandlerResult

\* FlowValidator.validateFlow(vflow)
Validate ==
    /\ vresult = NoResult
    /\ vresult' = validateFlow(vflow)
    /\ UNCHANGED <<execVars, vflow, shutdownCall, hcall, hresult>>

\* the node whose each_nodes the extraction deletes for the scan of its own
\* fields, had the deletion been made on the node itself
nodeAfterExtraction_Deleted(node) ==
    IF "each_nodes" \in DOMAIN node THEN [node EXCEPT !.each_nodes = <<>>] ELSE node

\* the node the caller still holds after extractFromNodes: each_nodes is
\* deleted from the spread copy nodeWithoutEachNodes, not from node
nodeAfterExtraction(node) == node

\* the flow JSON of the caller once validateFlow returned
flowAfterValidation(flow) ==
    [flow EXCEPT !.nodes = [i \in 1..Len(flow.nodes) |-> nodeAfterExtraction(flow.nodes[i])]]

\* a ValidationResult kept together with the result of the next validation
Twice(first, again) ==
    [isValid |-> first.isValid, errors |-> first.errors, warnings |-> first.warnings,
     hasGraph |-> first.hasGraph, executionOrder |-> first.executionOrder,
     again |-> again]

\* FlowValidator.validateFlow on the flow JSON already validated once
Revalidate ==
    /\ vresult # NoResult
    /\ "again" \notin DOMAIN vresult
    /\ vresult' = Twice(vresult, validateFlow(flowAfterValidation(vflow)))
    /\ UNCHANGED <<execVars, vflow, shutdownCall, hcall, hresult>>

NextV == Validate \/ Revalidate

SpecV == InitV /\ [][NextV]_vars

(***************************************************************************)
(* The shutdown specification: the executor with a caller of shutdown()    *)
(* followed through waitForRunningFlows.  The one-second timer of the      *)
(* waiting loop always fires; nothing obliges a running flow to go on.     *)
(***************************************************************************)
maxAttempts == 30

ShutdownJobs == {NewJob(SpawnedFlow, <<>>, TRUE, 0), NewJob(FlowMistyped, <<>>, FALSE, 0)}

\* the test of the while loop without the bound on attempts
WaitTest_NoTimeout(call, running) ==
    IF Cardinality(running) > 0
    THEN [call EXCEPT !.pc = "waiting"]
    ELSE [call EXCEPT !.pc = "returned"]

\* waitForRunningFlows at the test of its while loop: the activation sleeps
\* for another round, or leaves the loop, warns when flows still run, and
\* shutdown returns
WaitTest(call, running) ==
    IF Cardinality(running) > 0 /\ call.attempts < maxAttempts
    THEN [call EXCEPT !.pc = "waiting"]
    ELSE [call EXCEPT !.pc = "returned", !.forced = Cardinality(running) > 0]

\* a caller calls shutdown and the call runs to its first await
ShutdownWaits ==
    /\ shutdownCall.pc # "waiting"
    /\ Becomes0(RejectQueued(State))
    /\ shutdownCall' = WaitTest([NoShutdown EXCEPT !.rejected =
                                     shutdownCall.rejected \cup Range(executionQueue)],
                                runningFlows)
    /\ UNCHANGED <<vflow, vresult, hcall, hresult>>

\* the timer of the waiting loop fires: attempts++ and the test again
Poll ==
    /\ shutdownCall.pc = "waiting"
    /\ shutdownCall' = WaitTest([shutdownCall EXCEPT !.attempts = @ + 1], runningFlows)
    /\ UNCHANGED <<execVars, vflow, vresult, hcall, hresult>>

NextS ==
    \/ \E j \in ShutdownJobs : ExecuteFlow(j)
    \/ \E id \in Ids : RunHandler(id)
    \/ \E id \in Ids : HookReturns(id)
    \/ \E id \in Ids : CompleteReturns(id)
    \/ ShutdownWaits
    \/ Poll

SpecS == Init /\ [][NextS]_vars /\ WF_vars(Poll)

(***************************************************************************)
(* The handler specification: one call of the FOR_EACH or of the CONDITION *)
(* handler, on every node, registry and set of failing provider calls of   *)
(* the catalogues below.                                                   *)
(***************************************************************************)
\* value "N={{current}}" joined into out with join_str ","
BodyJoin == <<UVNode("J", "join", "out", Txt(<<",">>), <<"N=">>, "current", <<>>, Undef)>>

\* value "{{current}}" appended to T
BodyAppend == <<UVNode("P", "append", "T", Undef, <<>>, "current", <<>>, Undef)>>

\* S stores the current item, R stores what {{S.resolved_input}} resolves to
NodeS == UVNode("S", "update", "y", Undef, <<>>, "current", <<>>, Undef)
NodeR == UVNode("R", "update", "seen", Undef, <<>>, "S", <<"resolved_input">>, Undef)

\* a model call S, then R storing what {{S.text}} resolves to
BodyModel == <<Provider("S", "LLM", "current", <<>>),
               UVNode("R", "update", "seen", Undef, <<>>, "S", <<"text">>, Undef)>>

Bodies == {BodyJoin, BodyAppend, <<NodeS, NodeR>>, <<NodeR, NodeS>>, BodyModel}

\* what {{items}} holds: the list [1, ..., n], or a number
ItemValues == {Arr([k \in 1..n |-> Num(k)]) : n \in 0..MaxItems} \cup {Num(3)}

HandlerRegistry(items, out, T, score) ==
    initializeVariables(EmptyRegistry,
        <<[id |-> "items", type |-> "", default |-> items],
          [id |-> "out", type |-> "string", default |-> out],
          [id |-> "T", type |-> "array", default |-> T],
          [id |-> "score", type |-> "", default |-> score],
          [id |-> "grade", type |-> "string", default |-> Undef]>>)

ForEachCalls ==
    UNION {{[node |-> ForEach("L", "items", <<>>, "current", body),
             registry |-> HandlerRegistry(items, out, T, Undef),
             fails |-> fails] :
                items \in ItemValues, out \in {Undef, Txt(<<>>)},
                T \in {Arr(<<>>), Arr(<<Num(9)>>)},
                fails \in SUBSET ProviderCalls(ForEach("L", "items", <<>>, "current", body))} :
           body \in Bodies}

\* loops run on a registry that holds the output of a top-level node A: the
\* body reads {{A.text}} or {{A}}, or calls the model S and reads {{S.text}}
OutputBodies ==
    {<<UVNode("R", "update", "seen", Undef, <<>>, "A", <<"text">>, Undef)>>,
     <<UVNode("R", "update", "seen", Undef, <<>>, "A", <<>>, Undef)>>,
     <<UVNode("R", "update", "seen", Undef, <<>>, "S", <<"text">>, Undef),
       Provider("S", "LLM", "current", <<>>),
       UVNode("Q", "update", "seen", Undef, <<>>, "A", <<"text">>, Undef)>>}

OutputCalls ==
    UNION {{[node |-> ForEach("L", "items", <<>>, "current", body),
             registry |-> setNodeOutput(HandlerRegistry(items, Undef, Arr(<<>>), Undef),
                                        "A", Obj([text |-> Str(3)])),
             fails |-> fails] :
                items \in {Arr([k \in 1..n |-> Num(k)]) : n \in 0..2},
                fails \in SUBSET {c \in ProviderCalls(ForEach("L", "items", <<>>, "current", body)) :
                                     c[1] < 2}} :
           body \in OutputBodies}

\* a row of k cells, and what the cell loop of a row appends to T: the row,
\* a field of the row, the index of the row, or the cell
Row(k) == Obj([name |-> Str(k), cells |-> Arr([c \in 1..k |-> Num(c)])])

CellBodies ==
    {<<UVNode("P", "append", "T", Undef, <<>>, head, path, Undef)>> :
        <<head, path>> \in {<<"row", <<>>>>, <<"row", <<"name">>>>,
                            <<"row_index", <<>>>>, <<"cell", <<>>>>}}

\* L iterates over the rows with each_key row; its body is M, which iterates
\* over {{row.cells}} with each_key cell
NestedCalls ==
    {[node |-> ForEach("L", "items", <<>>, "row",
                       <<ForEach("M", "row", <<"cells">>, "cell", body)>>),
      registry |-> HandlerRegistry(Arr([k \in 1..n |-> Row(k)]), Undef, Arr(<<>>), Undef),
      fails |-> {}] : n \in 0..MaxItems, body \in CellBodies}

\* a branch whose only node stores the name of the branch in grade
Grades(name, condition, value) ==
    Branch(name, condition, value,
           <<UVNode(name, "update", "grade", Undef, <<>>, "", <<>>, Txt(<<name>>))>>)

BranchLists ==
    {<<Grades("excellent", "greater_than", Num(90)), Grades("good", "greater_than", Num(70)),
       Grades("default", "", Undef)>>,
     <<Grades("default", "", Undef), Grades("excellent", "greater_than", Num(90)),
       Grades("good", "greater_than", Num(70))>>,
     <<Grades("excellent", "greater_than", Num(90)), Grades("good", "greater_than", Num(70))>>,
     <<Grades("90", "greater_than", Num(90)), Grades("70", "greater_than", Num(70))>>,
     <<Grades("top", "equals", Num(95)), Grades("text", "contains", Txt(<<"9">>)),
       Grades("other", "not_equals", Num(50)), Grades("low", "less_than", Num(60))>>,
     <<Grades("odd", "matches", Num(1)), Grades("default", "", Undef)>>}

Scores == {Num(95), Num(80), Num(50), Txt(<<"9", "5">>), Txt(<<"a">>), Undef}

ConditionCalls ==
    {[node |-> Condition("C", "score", <<>>, branches),
      registry |-> HandlerRegistry(Arr(<<>>), Undef, Arr(<<>>), score),
      fails |-> {}] : branches \in BranchLists, score \in Scores}

\* a call on the registry or on a text: the fields of the call are in node
RegistryCall(type, variable_id, lit, variables, inputVariables, text) ==
    [node |-> [id |-> "", type |-> type, variable_id |-> variable_id, lit |-> lit,
               variables |-> variables, inputVariables |-> inputVariables, text |-> text],
     registry |-> EmptyRegistry, fails |-> {}]

\* one variable of every type tag, an untyped one, and the output of node A
TypedRegistry ==
    setNodeOutput(
        initializeVariables(EmptyRegistry,
            <<[id |-> "s", type |-> "string", default |-> Txt(<<"Ada">>)],
              [id |-> "n", type |-> "number", default |-> Num(7)],
              [id |-> "b", type |-> "boolean", default |-> Bool(TRUE)],
              [id |-> "a", type |-> "array", default |-> Arr(<<Num(1)>>)],
              [id |-> "o", type |-> "object", default |-> Obj([k |-> Num(1)])],
              [id |-> "u", type |-> "", default |-> Null],
              [id |-> "m", type |-> "string", default |-> Undef]>>),
        "A", Obj([text |-> Txt(<<"hi">>), data |-> Obj([k |-> Num(1)]), none |-> Null]))

SampleValues ==
    {Txt(<<>>), Str(2), Num(2), Bool(FALSE), Arr(<<>>), Obj([k |-> Num(2)]), Null, Undef}

\* registry.setVariable(variable_id, lit) on TypedRegistry
SetVariableCalls ==
    {[RegistryCall("setVariable", variable_id, value, <<>>, <<>>, <<>>)
         EXCEPT !.registry = TypedRegistry] :
        variable_id \in {"s", "n", "b", "a", "o", "u", "m", "ghost"}, value \in SampleValues}

\* Object.entries of the inputs of a caller that may name a, b and c
InputsOf(a, b, c) ==
    (IF a = <<>> THEN <<>> ELSE <<[id |-> "a", value |-> a[1]]>>)
    \o (IF b = <<>> THEN <<>> ELSE <<[id |-> "b", value |-> b[1]]>>)
    \o (IF c = <<>> THEN <<>> ELSE <<[id |-> "c", value |-> c[1]]>>)

\* new ExecutionRegistry(flowId, {variables: [a, b]}, tempDir, inputVariables)
ConstructorCalls ==
    {RegistryCall("new ExecutionRegistry", "", Undef,
                  <<[id |-> "a", type |-> ta, default |-> da],
                    [id |-> "b", type |-> "", default |-> db]>>,
                  InputsOf(a, b, c), <<>>) :
        ta \in {"", "number"}, da \in {Undef, Null, Num(1), Str(1)}, db \in {Undef, Str(1)},
        a \in {<<>>, <<Num(2)>>, <<Str(2)>>, <<Undef>>},
        b \in {<<>>, <<Num(3)>>}, c \in {<<>>, <<Num(4)>>}}

\* the tokens of the texts, resolved on TypedRegistry
TemplateTokens ==
    {Token("s", <<>>), Token("n", <<>>), Token("b", <<>>), Token("u", <<>>),
     Token("m", <<>>), Token("ghost", <<>>), Token("s", <<"first">>),
     Token("A", <<"text">>), Token("A", <<"data", "k">>), Token("A", <<"none">>),
     Token("A", <<"nope">>), Token("A", <<"text", "length">>), Token("B", <<"text">>)}

\* resolveValueExpression(text, registry) on texts that hold tokens among
\* other text
TemplateCalls ==
    {[RegistryCall("resolveValueExpression", "", Undef, <<>>, <<>>, text)
         EXCEPT !.registry = TypedRegistry] :
        text \in {<<Literal("Hi "), t>> : t \in TemplateTokens}
                 \cup {<<t, Literal(" and "), u>> : t \in TemplateTokens, u \in TemplateTokens}}

\* the operands and operators handed to both evaluateCondition methods
Operands ==
    {Num(5), Num(90), Str(95), Str(5), Txt(<<"a", "b">>), Txt(<<"a">>), Txt(<<>>),
     Bool(TRUE), Null, Undef, Arr(<<Num(5)>>)}

Operators == {"equals", "not_equals", "greater_than", "less_than", "contains", "matches"}

EvaluateCalls ==
    {[node |-> [id |-> "", type |-> "evaluateCondition", condition |-> operator,
                lit |-> fieldValue, value |-> compareValue],
      registry |-> EmptyRegistry, fails |-> {}] :
        operator \in Operators, fieldValue \in Operands, compareValue \in Operands}

InitN ==
    /\ globalLimit = 1
    /\ executionQueue = <<>>
    /\ runningFlows = {}
    /\ executionCounter = 0
    /\ job = [id \in Ids |-> NoJob]
    /\ promise = [id \in Ids |-> NoPromise]
    /\ frame = [id \in Ids |-> NoFrame]
    /\ events = [id \in Ids |-> <<>>]
    /\ vflow = FlowEmpty
    /\ vresult = NoResult
    /\ shutdownCall = NoShutdown
    /\ hcall \in ForEachCalls \cup OutputCalls \cup NestedCalls \cup ConditionCalls
                \cup SetVariableCalls \cup ConstructorCalls \cup TemplateCalls
                \cup EvaluateCalls
    /\ hresult = NoHandlerResult

\* ForEachNodeExecutor.execute(node, context)
RunForEach ==
    /\ hresult = NoHandlerResult
    /\ hcall.node.type = "FOR_EACH"
    /\ hresult' = ForEachExecute(hcall.registry, hcall.node, hcall.fails)
    /\ UNCHANGED <<execVars, vflow, vresult, shutdownCall, hcall>>

\* ConditionNodeExecutor.execute(node, context)
RunCondition ==
    /\ hresult = NoHandlerResult
    /\ hcall.node.type = "CONDITION"
    /\ hresult' = ConditionExecute(hcall.registry, hcall.node, hcall.fails)
    /\ UNCHANGED <<execVars, vflow, vresult, shutdownCall, hcall>>

\* what a call on the registry returned: the registry afterwards and the
\* value returned, success = FALSE for a throw
Returned(ok, registry, output) ==
    [success |-> ok, registry |-> registry, output |-> output,
     cause |-> IF ok THEN "" ELSE "thrown", trace |-> <<>>]

\* registry.setVariable(variableId, value)
RunSetVariable ==
    /\ hresult = NoHandlerResult
    /\ hcall.node.type = "setVariable"
    /\ LET set == setVariable(hcall.registry, hcall.node.variable_id, hcall.node.lit)
       IN  hresult' = Returned(set.ok, set.registry, Undef)
    /\ UNCHANGED <<execVars, vflow, vresult, shutdownCall, hcall>>

\* new ExecutionRegistry(flowId, flow, tempDir, inputVariables)
RunConstructor ==
    /\ hresult = NoHandlerResult
    /\ hcall.node.type = "new ExecutionRegistry"
    /\ LET created == NewRegistry([variables |-> hcall.node.variables],
                                  hcall.node.inputVariables)
       IN  hresult' = Returned(created.ok, created.registry, Undef)
    /\ UNCHANGED <<execVars, vflow, vresult, shutdownCall, hcall>>

\* resolveValueExpression(value, registry)
RunResolve ==
    /\ hresult = NoHandlerResult
    /\ hcall.node.type = "resolveValueExpression"
    /\ hresult' = Returned(TRUE, hcall.registry, resolveText(hcall.node.text, hcall.registry))
    /\ UNCHANGED <<execVars, vflow, vresult, shutdownCall, hcall>>

\* evaluateCondition of the filter operation and of the Condition node on
\* the same operands
RunEvaluate ==
    /\ hresult = NoHandlerResult
    /\ hcall.node.type = "evaluateCondition"
    /\ hresult' = [success |-> TRUE, registry |-> hcall.registry, output |-> Undef,
                   cause |-> "", trace |-> <<>>,
                   filter |-> filterEvaluateCondition(hcall.node.lit, hcall.node.condition,
                                                      hcall.node.value),
                   condition |-> evaluateCondition(hcall.node.lit, hcall.node.condition,
                                                   hcall.node.value)]
    /\ UNCHANGED <<execVars, vflow, vresult, shutdownCall, hcall>>

NextN ==
    \/ RunForEach \/ RunCondition \/ RunSetVariable \/ RunConstructor \/ RunResolve
    \/ RunEvaluate

SpecN == InitN /\ [][NextN]_vars

(***************************************************************************)
(* The runs of one flow definition object.  The caller holds one flow JSON  *)
(* and passes it to executeFlow several times; validation.flow keeps the    *)
(* caller's variables array, and initializeVariables stores variable.default *)
(* itself, so the registry of every run refers to the default objects of    *)
(* the definition until the run sets the variable.  hcall is the definition *)
(* as it is now, hresult the runs made of it.  The flow has one node, an    *)
(* UPDATE_VARIABLE of type omit with value {{profile}} and target out.      *)
(***************************************************************************)
MaxRuns == 2

Without(fields, key) == [k \in DOMAIN fields \ {key} |-> fields[k]]

\* deleteNestedValue(obj, path) with path.split(".") as keys: the object
\* after the call
RECURSIVE deleteNestedValue(_, _)
deleteNestedValue(obj, keys) ==
    IF obj.t # "object" THEN obj
    ELSE IF Len(keys) = 1 THEN Obj(Without(obj.fields, keys[1]))
    ELSE IF keys[1] \in DOMAIN obj.fields
    THEN Obj([obj.fields EXCEPT ![keys[1]] = deleteNestedValue(@, Tail(keys))])
    ELSE obj

\* case "omit" on an object: omitted = {...resolvedValue}, then one deletion
\* per field.  The spread copies the top level only, so what a dotted field
\* deletes below a key that omitted still has is deleted from the object
\* resolvedValue shares with it.  [value, source]: what is returned and what
\* resolvedValue has become
RECURSIVE omitFields(_, _, _)
omitFields(omitted, resolvedValue, fields) ==
    IF fields = <<>> THEN [value |-> omitted, source |-> resolvedValue]
    ELSE IF Len(Head(fields)) > 1
    THEN omitFields(deleteNestedValue(omitted, Head(fields)),
                    IF Head(fields)[1] \in DOMAIN omitted.fields
                    THEN deleteNestedValue(resolvedValue, Head(fields))
                    ELSE resolvedValue,
                    Tail(fields))
    ELSE omitFields(Obj(Without(omitted.fields, Head(fields)[1])), resolvedValue,
                    Tail(fields))

\* the default objects a caller may declare for profile
Profiles ==
    {Obj([name |-> Str(1), meta |-> Obj([secret |-> Num(1), keep |-> Num(2)])]),
     Obj([name |-> Str(1), meta |-> Num(3)])}

\* config.fields: one or two fields, each split at the dots
FieldPaths == {<<"name">>, <<"meta">>, <<"meta", "secret">>, <<"meta", "keep">>, <<"zz", "q">>}
FieldLists == {<<f>> : f \in FieldPaths} \cup {<<f, g>> : f \in FieldPaths, g \in FieldPaths}

\* flow.variables of the definition
ProfileVariables(profile) ==
    <<[id |-> "profile", type |-> "object", default |-> profile],
      [id |-> "out", type |-> "", default |-> Undef]>>

Definition(profile, fields) ==
    [node |-> [id |-> "O", type |-> "UPDATE_VARIABLE", op |-> "omit",
               variable_id |-> "out", head |-> "profile", path |-> <<>>,
               fields |-> fields],
     variables |-> ProfileVariables(profile),
     declared |-> profile,
     registry |-> EmptyRegistry, fails |-> {}]

InitR ==
    /\ globalLimit = 1
    /\ executionQueue = <<>>
    /\ runningFlows = {}
    /\ executionCounter = 0
    /\ job = [id \in Ids |-> NoJob]
    /\ promise = [id \in Ids |-> NoPromise]
    /\ frame = [id \in Ids |-> NoFrame]
    /\ events = [id \in Ids |-> <<>>]
    /\ vflow = FlowEmpty
    /\ vresult = NoResult
    /\ shutdownCall = NoShutdown
    /\ \E profile \in Profiles, fields \in FieldLists : hcall = Definition(profile, fields)
    /\ hresult = [runs |-> <<>>]

\* executeFlowInternal up to the first node: new ExecutionRegistry(id, flow).
\* atStart is what the registry held when it was constructed
StartRun ==
    /\ Len(hresult.runs) < MaxRuns
    /\ LET registry == initializeVariables(EmptyRegistry, hcall.variables)
       IN  hresult' = [runs |-> Append(hresult.runs,
                          [pc |-> "started", registry |-> registry,
                           atStart |-> registry.variables])]
    /\ UNCHANGED <<execVars, vflow, vresult, shutdownCall, hcall>>

\* the registry of a run as its reads find it: profile, never set by the
\* run, is the default object of the definition as it is now
Held(run, definition) ==
    [run.registry EXCEPT !.variables =
        SetKey(@, "profile", definition.variables[1].default)]

\* UpdateVariableNodeExecutor.execute of the node in run r: the value
\* resolves to the object profile refers to, omit returns the copy, and
\* setVariable stores it in out
ExecuteOmit(r) ==
    /\ hresult.runs[r].pc = "started"
    /\ LET registry == Held(hresult.runs[r], hcall)
           resolvedValue == resolveExpression(registry, hcall.node.head, hcall.node.path)
           omitted == omitFields(resolvedValue, resolvedValue, hcall.node.fields)
           written == setVariable(registry, hcall.node.variable_id, omitted.value)
       IN  /\ hcall' = [hcall EXCEPT !.variables[1].default = omitted.source]
           /\ hresult' = [hresult EXCEPT !.runs[r] =
                            [pc |-> "done", registry |-> written.registry,
                             atStart |-> @.atStart]]
    /\ UNCHANGED <<execVars, vflow, vresult, shutdownCall>>

NextR == StartRun \/ \E r \in 1..MaxRuns : r <= Len(hresult.runs) /\ ExecuteOmit(r)

SpecR == InitR /\ [][NextR]_vars

(***************************************************************************)
(* Properties                                                              *)
(***************************************************************************)
Submitted(id) == promise[id].state # "none"
Ended(id) == frame[id].pc \in {"done", "abandoned"}
EventsOf(id, name) == SelectSeq(events[id], LAMBDA e : e.ev = name)

\* C1: the running set never holds more than concurrency.global_limit flows
C1_GlobalLimit == Cardinality(runningFlows) <= globalLimit

\* C2: once the run of an enqueued flow has ended, the promise returned by
\* executeFlow has been settled, by exactly one call of resolve or reject
C2_SettledOnce ==
    \A id \in Ids : Ended(id) =>
        promise[id].state \in {"resolved", "rejected"} /\ promise[id].calls = 1

\* C3: once a flow run has ended, for whatever reason, its id is no longer in
\* the running set
C3_SlotReleased == \A id \in Ids : Ended(id) => id \notin runningFlows

\* C4: a started flow whose inputs do not match the declared variable types is
\* rejected with a type error naming the variable, and none of its nodes ran
C4_TypeErrorRejects ==
    \A id \in Ids :
        LET created == NewRegistry(job[id].flow, job[id].inputVariables)
        IN  (Submitted(id) /\ frame[id].pc # "none" /\ ~created.ok) =>
                /\ promise[id].state = "rejected"
                /\ promise[id].error.kind = "type"
                /\ promise[id].error.detail = created.variableId
                /\ events[id] = <<>>

\* B's payload holds a reference whose head is A's id and whose tail begins
\* with output
PayloadEdge(flow, i, j) ==
    flow.nodes[j].head = flow.nodes[i].id /\ StartsWithOutput(flow.nodes[j].path)

\* C5: in a valid flow, for nodes A, B of any type with an edge A -> B, A comes
\* before B in the execution order
C5_OrderRespectsDependencies ==
    vresult.isValid =>
        \A i, j \in 1..Len(vflow.nodes) :
            PayloadEdge(vflow, i, j) =>
                IndexOf(vresult.executionOrder, vflow.nodes[i].id)
                    < IndexOf(vresult.executionOrder, vflow.nodes[j].id)

RECURSIVE ReachableFrom(_, _)
ReachableFrom(flow, seen) ==
    LET more == seen \cup {j \in 1..Len(flow.nodes) :
                              \E i \in seen : PayloadEdge(flow, i, j)}
    IN  IF more = seen THEN seen ELSE ReachableFrom(flow, more)

HasCycle(flow) ==
    \E i, j \in 1..Len(flow.nodes) :
        PayloadEdge(flow, i, j) /\ i \in ReachableFrom(flow, {j})

\* C6: a flow whose dependency graph has a cycle is reported invalid with the
\* code CIRCULAR_DEPENDENCY
C6_CycleRejected ==
    (vresult # NoResult /\ HasCycle(vflow)) =>
        /\ ~vresult.isValid
        /\ \E e \in Range(vresult.errors) : e.code = "CIRCULAR_DEPENDENCY"

\* C7: a flow in which a node references {{X.output}} of a node X declared
\* later is invalid and its errors include a forward-reference error
C7_ForwardReferenceRejected ==
    (vresult # NoResult
        /\ \E i, j \in 1..Len(vflow.nodes) :
               i < j /\ vflow.nodes[i].head = vflow.nodes[j].id
                     /\ vflow.nodes[i].path = <<"output">>) =>
        /\ ~vresult.isValid
        /\ \E e \in Range(vresult.errors) : e.code = "FORWARD_REFERENCE"

\* the submitted flows that validateFlow reports invalid
InvalidFlows == {j.flow : j \in {x \in Jobs \cup {SpawnedJob} : ~validateFlow(x.flow).isValid}}

\* C8: a submitted flow with a validation error is rejected with the
\* validation error, is neither queued nor running, was never started, and no
\* handler or hook of it was invoked
C8_ValidationRejects ==
    \A id \in Ids :
        (Submitted(id) /\ job[id].flow \in InvalidFlows) =>
            /\ promise[id].state = "rejected"
            /\ promise[id].error.kind = "validation"
            /\ id \notin Range(executionQueue)
            /\ id \notin runningFlows
            /\ frame[id].pc = "none"
            /\ events[id] = <<>>

C8_Witness ==
    \E id \in Ids : /\ promise[id].state = "rejected"
                    /\ promise[id].error.kind = "validation"
                    /\ job[id].flow \in InvalidFlows

\* the value of a variable in a snapshot of registry.variables
ValueIn(variables, id) == IF id \in DOMAIN variables THEN variables[id] ELSE Undef

\* C9: the outputs of a resolved flow have exactly the declared output ids as
\* keys, each with the value the variable had when execution finished
C9_OutputCompleteness ==
    \A id \in Ids :
        promise[id].state = "resolved" =>
            /\ DOMAIN promise[id].outputs = Range(job[id].flow.output)
            /\ \A v \in Range(job[id].flow.output) :
                   promise[id].outputs[v] = ValueIn(frame[id].atFinish, v)

C9_Witness ==
    \E id \in Ids : /\ promise[id].state = "resolved"
                    /\ job[id].flow = FlowTwo
                    /\ promise[id].outputs["x"] = Num(1)
                    /\ promise[id].outputs["y"] = Undef
                    /\ frame[id].stoppedAt = 1

\* C10: after afterNode returned stop at the k-th node of the order, exactly
\* the first k nodes have run and nothing was invoked for a later node,
\* onComplete is invoked once, and the flow resolves with the outputs read
\* from the registry as it was at the stop
C10_StopShortCircuits ==
    \A id \in Ids :
        LET f == frame[id]
            k == f.stoppedAt
        IN  k > 0 =>
            /\ \A i \in 1..Len(events[id]) :
                   events[id][i].node \notin {f.order[j] : j \in (k+1)..Len(f.order)}
            /\ [i \in 1..Len(EventsOf(id, "handler")) |-> EventsOf(id, "handler")[i].node]
                   = SubSeq(f.order, 1, k)
            /\ Len(EventsOf(id, "onComplete")) = 1
            /\ f.pc \in {"complete", "done"}
            /\ f.outputs = [v \in Range(job[id].flow.output) |-> ValueIn(f.atFinish, v)]
            /\ promise[id].state = IF f.pc = "done" THEN "resolved" ELSE "pending"
            /\ f.pc = "done" => promise[id].outputs = f.outputs

C10_Witness ==
    \E id \in Ids : /\ frame[id].stoppedAt = 1
                    /\ Len(frame[id].order) = 2
                    /\ promise[id].state = "resolved"
                    /\ Len(EventsOf(id, "handler")) = 1

HandlerNodes(id) ==
    [i \in 1..Len(EventsOf(id, "handler")) |-> EventsOf(id, "handler")[i].node]

\* C11: when the handler of a top-level node failed and onError returned
\* continue (the run went on after the onError call), the output of the
\* failed node is never recorded and references to it resolve to undefined,
\* afterNode is not invoked for it, the run goes on with the next node of
\* the order, and the flow resolves unless a later node fails without
\* continue
C11_ContinueSkipsFailedNode ==
    \A id \in Ids : \A k \in 1..(Len(events[id]) - 1) :
        LET e == events[id][k]
            f == frame[id]
            pos == IndexOf(f.order, e.node)
        IN  e.ev = "onError" =>
            /\ e.node \notin DOMAIN f.registry.nodeOutputs
            /\ resolveExpression(f.registry, e.node, <<"new_value">>) = Undef
            /\ Ev("afterNode", e.node) \notin Range(events[id])
            /\ events[id][k + 1] = IF pos < Len(f.order)
                                   THEN Ev("beforeNode", f.order[pos + 1])
                                   ELSE Ev("onComplete", "")
            /\ HandlerNodes(id) = SubSeq(f.order, 1, Len(HandlerNodes(id)))
            /\ f.pc = "done" =>
                   \/ /\ promise[id].state = "resolved"
                      /\ f.stoppedAt = 0 => HandlerNodes(id) = f.order
                   \/ /\ promise[id].state = "rejected"
                      /\ f.failedAt > pos
                      /\ promise[id].error = NodeError(f.order[f.failedAt], f.cause)

C11_Witness ==
    \E id \in Ids : /\ Ev("onError", "A") \in Range(events[id])
                    /\ HandlerNodes(id) = <<"A", "B">>
                    /\ promise[id].state = "resolved"
                    /\ promise[id].outputs["x"] = Num(2)

\* C12: when the handler of a top-level node failed and the failure was not
\* continued (no onError hook, or onError returned without continue), no later
\* node executes, onComplete is not invoked, and the promise is rejected
\* once, with an error naming the failing node and the underlying cause
C12_UncontinuedFailureRejects ==
    \A id \in Ids :
        LET f == frame[id]
            k == f.failedAt
        IN  k > 0 =>
            /\ \A i \in 1..Len(events[id]) :
                   events[id][i].node \notin {f.order[j] : j \in (k+1)..Len(f.order)}
            /\ HandlerNodes(id) = SubSeq(f.order, 1, k)
            /\ EventsOf(id, "onComplete") = <<>>
            /\ promise[id].state = "rejected"
            /\ promise[id].calls = 1
            /\ f.cause # ""
            /\ promise[id].error = NodeError(f.order[k], f.cause)
            /\ job[id].hooks => events[id][Len(events[id])] = Ev("onError", f.order[k])

C12_Witness ==
    \E id \in Ids : /\ frame[id].failedAt = 1
                    /\ Len(frame[id].order) = 2
                    /\ job[id].hooks
                    /\ promise[id].error = NodeError("A", "type")

\* C13: a failure of a node nested in the body of a For-Each or in the
\* fired branch of a Condition makes the enclosing top-level node fail:
\* afterNode is not invoked for it, onError is consulted for it when there
\* is one, and the flow resolves only if onError was consulted
C13_NestedFailureFailsNode ==
    \A id \in Ids : \A n \in frame[id].nested :
        /\ Ev("afterNode", n) \notin Range(events[id])
        /\ job[id].hooks => Ev("onError", n) \in Range(events[id])
        /\ promise[id].state = "resolved" => Ev("onError", n) \in Range(events[id])

\* C14: an exception thrown by beforeNode, afterNode, onError or onComplete is
\* caught and never becomes the error of the flow: from every point where a
\* hook is awaited, the run after the hook threw is the run after the hook
\* returned without a signal
C14_HookExceptionsNeverFatal ==
    \A id \in Ids :
        /\ promise[id].error.kind # "hook"
        /\ frame[id].pc = "signal" =>
               SignalDone(State, id, "throw") = SignalDone(State, id, "none")
        /\ frame[id].pc = "complete" =>
               CompleteDone(State, id, TRUE) = CompleteDone(State, id, FALSE)
        /\ (frame[id].pc = "handler" /\ job[id].hooks) =>
               \A result \in NodeResults(frame[id].registry,
                                         FindNode(job[id].flow,
                                                  frame[id].order[frame[id].k])) :
                   HandlerDone(BeforeNodeDone(State, id, TRUE), id, result)
                       = HandlerDone(State, id, result)

\* onComplete is awaited after two nodes ran, and when it throws the flow
\* resolves with the collected outputs
C14_Witness ==
    \E id \in Ids : /\ frame[id].pc = "complete"
                    /\ HandlerNodes(id) = <<"A", "B">>
                    /\ CompleteDone(State, id, TRUE).promise[id].state = "resolved"
                    /\ CompleteDone(State, id, TRUE).promise[id].outputs = frame[id].outputs

\* C15: shutdown rejects every flow that waits in the queue when it is
\* called with the error "Executor shutdown", and none of them ever executes
\* a node or occupies a slot; running flows are left as they are; and the
\* call returns as soon as a test finds no flow running, or after 30 polling
\* rounds, even if a running flow never completes
ShutdownRejectsQueued ==
    \A id \in shutdownCall.rejected :
        /\ promise[id].state = "rejected"
        /\ promise[id].error.kind = "shutdown"
        /\ events[id] = <<>>
        /\ frame[id].pc = "none"
        /\ id \notin runningFlows

ShutdownBounded ==
    /\ shutdownCall.attempts <= maxAttempts
    /\ shutdownCall.pc = "waiting" => shutdownCall.attempts < maxAttempts
    /\ (shutdownCall.pc = "returned" /\ shutdownCall.forced) =>
           shutdownCall.attempts = maxAttempts

ShutdownSparesRunning ==
    ShutdownWaits =>
        /\ runningFlows' = runningFlows
        /\ \A id \in runningFlows :
               frame'[id] = frame[id] /\ promise'[id] = promise[id] /\ events'[id] = events[id]
        /\ shutdownCall'.rejected = shutdownCall.rejected \cup Range(executionQueue)
        /\ executionQueue' = <<>>

ShutdownReturnsWhenIdle ==
    (ShutdownWaits \/ Poll) =>
        (shutdownCall'.pc = "returned"
            <=> (runningFlows' = {} \/ shutdownCall'.attempts = maxAttempts))

C15_ShutdownRejectsQueuedAndReturns ==
    /\ [](ShutdownRejectsQueued /\ ShutdownBounded)
    /\ [][ShutdownSparesRunning /\ ShutdownReturnsWhenIdle]_vars
    /\ (shutdownCall.pc = "waiting") ~> (shutdownCall.pc = "returned")

\* shutdown gave up on a flow that was still running after 30 rounds, having
\* rejected a queued flow
C15_Witness ==
    /\ shutdownCall.pc = "returned"
    /\ shutdownCall.forced
    /\ shutdownCall.attempts = 30
    /\ shutdownCall.rejected # {}
    /\ runningFlows # {}

\* the call of the handler specification has returned
ForEachRan ==
    /\ hresult # NoHandlerResult
    /\ hcall.node.type = "FOR_EACH"
    /\ getVariable(hcall.registry, "items").t = "array"

ConditionRan == hresult # NoHandlerResult /\ hcall.node.type = "CONDITION"

InputItems == getVariable(hcall.registry, "items").items
IterationResults(i) == hresult.output.fields.results.items[i + 1].fields.results.items

C17_ScopeIsolation ==
    ForEachRan =>
        LET body == hcall.node.each_nodes
            ids == [k \in 1..Len(body) |-> body[k].id]
        IN  \A i \in 0..(Len(InputItems) - 1) : \A k \in 1..Len(body) :
                (/\ body[k].type = "UPDATE_VARIABLE"
                 /\ body[k].head \in Range(ids)
                 /\ IterationResults(i)[k].fields.success = Bool(TRUE)) =>
                    LET pos == IndexOf(ids, body[k].head)
                        produced == IterationResults(i)[pos].fields
                    IN  IterationResults(i)[k].fields.result.fields.resolved_input
                            = IF pos < k /\ produced.success = Bool(TRUE)
                              THEN Navigate(produced.result, body[k].path)
                              ELSE Undef

C19_JoinAccumulates ==
    (/\ ForEachRan
     /\ hcall.node.each_nodes = BodyJoin
     /\ InputItems = <<Num(1), Num(2), Num(3), Num(4), Num(5)>>) =>
        /\ getVariable(hresult.registry, "out")
               = Txt(<<"N=", "1", ",", "N=", "2", ",", "N=", "3", ",",
                       "N=", "4", ",", "N=", "5">>)
        /\ collectOutputs([output |-> <<"out">>], hresult.registry)["out"]
               = getVariable(hresult.registry, "out")

\* the call was a loop over rows whose body is a loop over the cells of a row
NestedRan ==
    /\ ForEachRan
    /\ Len(hcall.node.each_nodes) = 1
    /\ hcall.node.each_nodes[1].type = "FOR_EACH"

\* what an append stores: objects are JSON-encoded first
Appended(val) == IF val.t \in {"object", "array", "null"} THEN JsonOf(val) ELSE val

\* what the body node of the inner loop appended to T, per row and per cell
AppendedPerCell ==
    getVariable(hresult.registry, "T").items

\* C21: in the body of an inner For-Each, a reference whose head is the
\* each_key of the outer loop resolves to the outer current item when it has
\* no tail and to the navigation into that item when it has a dotted tail,
\* and the outer key followed by _index resolves to the outer index
C21_NestedScopeKeys ==
    NestedRan =>
        LET outer == hcall.node
            ref == outer.each_nodes[1].each_nodes[1]
            resolved(i) == IF ref.head = outer.each_key
                           THEN Navigate(InputItems[i + 1], ref.path)
                           ELSE Num(i)
        IN  ref.head \in {outer.each_key, outer.each_key \o "_index"} =>
                AppendedPerCell
                    = Flatten([p \in 1..Len(InputItems) |->
                          [c \in 1..Len(InputItems[p].fields.cells.items) |->
                              Appended(resolved(p - 1))]])

\* the ids of nodes and of all the nodes nested in them, at any depth
RECURSIVE NodeIdsOf(_)
NodeIdsOf(nodes) ==
    Flatten([i \in 1..Len(nodes) |->
        <<nodes[i].id>>
        \o (IF nodes[i].type = "FOR_EACH" THEN NodeIdsOf(nodes[i].each_nodes)
            ELSE IF nodes[i].type = "CONDITION"
            THEN Flatten([b \in 1..Len(nodes[i].branches) |->
                     NodeIdsOf(nodes[i].branches[b].nodes)])
            ELSE <<>>)])

HasDuplicate(ids) == Len(ids) # Cardinality(Range(ids))

ErrorCodes(result) == {e.code : e \in Range(result.errors)}

\* C22: a flow in which two nodes share an id, wherever they are located, is
\* reported invalid with DUPLICATE_NODE_ID, and a flow with two variable
\* declarations of one id is reported invalid with DUPLICATE_VARIABLE_ID
C22_DuplicateIdsRejected ==
    vresult # NoResult =>
        /\ HasDuplicate(NodeIdsOf(vflow.nodes)) =>
               ~vresult.isValid /\ "DUPLICATE_NODE_ID" \in ErrorCodes(vresult)
        /\ HasDuplicate([i \in 1..Len(vflow.variables) |-> vflow.variables[i].id]) =>
               ~vresult.isValid /\ "DUPLICATE_VARIABLE_ID" \in ErrorCodes(vresult)

\* C23: executeFlow on the valid flow without nodes resolves, giving each
\* declared output the default of its variable
C23_EmptyFlowResolves ==
    \A id \in Ids :
        (job[id].flow = FlowEmpty /\ promise[id].state \in {"resolved", "rejected"}) =>
            /\ promise[id].state = "resolved"
            /\ promise[id].outputs = [v \in {"x"} |-> DeclX.default]

VariableIds(flow) == {flow.variables[i].id : i \in 1..Len(flow.variables)}

\* C24: in a flow reported valid, the head of every reference of a top-level
\* node, whatever its tail, is a declared variable or the id of a node that
\* comes before the referencing node in the execution order
C24_ReferencedNodesPrecede ==
    vresult.isValid =>
        \A j \in 1..Len(vflow.nodes) :
            (HasRef(vflow.nodes[j]) /\ vflow.nodes[j].head \notin VariableIds(vflow)) =>
                /\ vflow.nodes[j].head \in Range(vresult.executionOrder)
                /\ IndexOf(vresult.executionOrder, vflow.nodes[j].head)
                       < IndexOf(vresult.executionOrder, vflow.nodes[j].id)

\* C25: in the body of the inner loop M of a flow of LoopFlows, the reference
\* of P is accepted exactly when its head is a key, an index or a body node
\* id of M or of the enclosing loop L, a top-level node id or, without a
\* tail, a declared variable; otherwise the result holds
\* INVALID_VARIABLE_REFERENCE for it
C25_LoopScopeEnriched ==
    (vresult # NoResult /\ vflow \in LoopFlows) =>
        LET L == vflow.nodes[2]
            S == L.each_nodes[1]
            M == L.each_nodes[2]
            P == M.each_nodes[1]
            enclosing == {L.each_key, L.each_key \o "_index", S.id, M.id}
            own == {M.each_key, M.each_key \o "_index", P.id}
            global == {vflow.nodes[i].id : i \in 1..Len(vflow.nodes)}
            accepted == \/ P.head \in enclosing \cup own \cup global
                        \/ P.path = <<>> /\ P.head \in VariableIds(vflow)
        IN  (HasRef(P) /\ S.head # P.head) =>
                (Err("INVALID_VARIABLE_REFERENCE", P.head) \in Range(vresult.errors))
                    <=> ~accepted

\* the declared type of the target of a setVariable call and what the type
\* tags demand of a value
DeclaredType(registry, variableId) ==
    IF variableId \in DOMAIN registry.variableTypes
    THEN registry.variableTypes[variableId] ELSE ""

MatchesTag(tag, value) ==
    CASE tag \in {"string", "number", "boolean"} -> value.t = tag
      [] tag = "array" -> value.t = "array"
      [] tag = "object" -> value.t = "object"
      [] OTHER -> TRUE

\* C26: setVariable on a variable of a declared type with a value that does
\* not match the type throws and leaves the registry as it was
C26_MismatchThrowsUnchanged ==
    (hcall.node.type = "setVariable" /\ hresult # NoHandlerResult) =>
        LET tag == DeclaredType(hcall.registry, hcall.node.variable_id)
        IN  (tag # "" /\ ~MatchesTag(tag, hcall.node.lit)) =>
                /\ ~hresult.success
                /\ hresult.registry = hcall.registry

C26_Witness ==
    /\ hcall.node.type = "setVariable"
    /\ hcall.node.variable_id = "o"
    /\ hcall.node.lit = Arr(<<>>)
    /\ hresult # NoHandlerResult
    /\ ~hresult.success
    /\ getVariable(hresult.registry, "o") = Obj([k |-> Num(1)])

\* the entry of the caller's inputs for id, as a sequence of at most one value
Supplied(inputVariables, id) ==
    LET entries == SelectSeq(inputVariables, LAMBDA e : e.id = id)
    IN  IF entries = <<>> THEN <<>> ELSE <<entries[Len(entries)].value>>

DefaultOf(variables, id) ==
    LET declared == SelectSeq(variables, LAMBDA d : d.id = id)
    IN  IF declared = <<>> THEN Undef ELSE declared[Len(declared)].default

Unresolved ==
    {Token("m", <<>>), Token("ghost", <<>>), Token("s", <<"first">>),
     Token("A", <<"nope">>), Token("A", <<"text", "length">>), Token("B", <<"text">>)}

ShownAs(token) ==
    CASE token = Token("s", <<>>) -> <<"Ada">>
      [] token = Token("n", <<>>) -> <<"7">>
      [] token = Token("b", <<>>) -> <<"true">>
      [] token = Token("u", <<>>) -> <<"null">>
      [] token = Token("A", <<"text">>) -> <<"hi">>
      [] token = Token("A", <<"data", "k">>) -> <<"1">>
      [] token = Token("A", <<"none">>) -> <<"null">>
      [] OTHER -> TokenText(token)

\* C29: the result of a text with tokens among other text is the text with
\* every resolvable token replaced by the text of its value and every other
\* token left as it was written
C29_TemplatePreservation ==
    (hcall.node.type = "resolveValueExpression" /\ hresult # NoHandlerResult) =>
        hresult.output =
            Txt(Flatten([i \in 1..Len(hcall.node.text) |->
                    IF hcall.node.text[i].head = "" THEN <<hcall.node.text[i].lit>>
                    ELSE ShownAs(hcall.node.text[i])]))

C29_Witness ==
    /\ hcall.node.type = "resolveValueExpression"
    /\ hcall.node.text = <<Token("ghost", <<>>), Literal(" and "), Token("n", <<>>)>>
    /\ hresult.output = Txt(<<"{{", "ghost", "}}", " and ", "7">>)

C28_RunsShareNothing ==
    ("runs" \in DOMAIN hresult) =>
        \A r \in 1..Len(hresult.runs) :
            /\ hresult.runs[r].atStart =
                   initializeVariables(EmptyRegistry, ProfileVariables(hcall.declared)).variables
            /\ hresult.runs[r].pc = "done" =>
                   getVariable(hresult.runs[r].registry, "out") =
                       omitFields(hcall.declared, hcall.declared, hcall.node.fields).value

\* the order that places, at each step, the earliest declared node among those
\* whose dependencies are all placed
RECURSIVE DeclarationTies(_, _, _)
DeclarationTies(keys, deps, placed) ==
    LET ready == {i \in 1..Len(keys) :
                     /\ keys[i] \notin Range(placed)
                     /\ (deps[keys[i]] \cap Range(keys)) \subseteq Range(placed)}
    IN  IF ready = {} THEN placed
        ELSE DeclarationTies(keys, deps,
                 Append(placed, keys[CHOOSE i \in ready : \A j \in ready : i <= j]))

\* C31: the execution order of a flow with a dependency graph is the
\* topological order in which, at each step, the earliest declared node among
\* the nodes whose dependencies are all placed comes next
C31_TiesByDeclaration ==
    (vresult # NoResult /\ vresult.hasGraph) =>
        vresult.executionOrder = DeclarationTies(GraphKeys(vflow), GraphDeps(vflow), <<>>)

\* the event that may come before event i of a run with hooks
FollowsRightly(order, evs, i) ==
    LET e == evs[i]
        pos == IndexOf(order, e.node)
    IN  CASE e.ev = "beforeNode" ->
               /\ e.node \in Range(order)
               /\ IF i = 1 THEN pos = 1
                  ELSE /\ evs[i - 1].ev \in {"afterNode", "onError"}
                       /\ pos > 1
                       /\ evs[i - 1].node = order[pos - 1]
          [] e.ev = "handler" -> i > 1 /\ evs[i - 1] = Ev("beforeNode", e.node)
          [] e.ev \in {"afterNode", "onError"} ->
               i > 1 /\ evs[i - 1] = Ev("handler", e.node)
          [] e.ev = "onComplete" ->
               /\ i = Len(evs)
               /\ i > 1
               /\ evs[i - 1].ev \in {"afterNode", "onError"}
          [] OTHER -> FALSE

\* C32: in a run with hooks every top-level node, in execution order, has
\* beforeNode, then the handler, then afterNode (with its output recorded) or
\* onError, never both, one node after the other and for top-level nodes
\* only; onComplete is called once, last, with the outputs the caller
\* receives, before the promise resolves, and never in a rejected run
C32_HookOrder ==
    \A id \in Ids : job[id].hooks =>
        LET evs == events[id]
            f == frame[id]
        IN  /\ \A i \in 1..Len(evs) : FollowsRightly(f.order, evs, i)
            /\ \A i \in 1..Len(evs) :
                   evs[i].ev = "afterNode" =>
                       /\ Ev("onError", evs[i].node) \notin Range(evs)
                       /\ f.pc # "done" => evs[i].node \in DOMAIN f.registry.nodeOutputs
            /\ Len(EventsOf(id, "onComplete")) <= 1
            /\ promise[id].state = "resolved" =>
                   /\ Len(EventsOf(id, "onComplete")) = 1
                   /\ promise[id].outputs = f.outputs
            /\ promise[id].state = "rejected" => EventsOf(id, "onComplete") = <<>>
            /\ f.pc = "complete" =>
                   /\ promise[id].state = "pending"
                   /\ evs[Len(evs)] = Ev("onComplete", "")

\* a run of the loop flow with hooks that resolved after onComplete
C32_Witness ==
    \E id \in Ids :
        /\ job[id].hooks
        /\ job[id].flow = FlowLoop
        /\ promise[id].state = "resolved"
        /\ Len(events[id]) > 3
        /\ events[id][Len(events[id])] = Ev("onComplete", "")

\* the runs <<iteration, position>> of the body node id that succeeded before
\* the run at position k of iteration i
SucceededBefore(id, i, k) ==
    {run \in (0..i) \X (1..Len(hcall.node.each_nodes)) :
        /\ run[1] < i \/ run[2] < k
        /\ hcall.node.each_nodes[run[2]].id = id
        /\ IterationResults(run[1])[run[2]].fields.success = Bool(TRUE)}

Latest(runs) ==
    CHOOSE run \in runs :
        \A other \in runs : other[1] < run[1] \/ (other[1] = run[1] /\ other[2] <= run[2])

\* what the registries hold for the node id when the run at position k of
\* iteration i starts: the output of its latest successful run as a body
\* node, or what the registry of the flow held before the loop
HeldBefore(id, i, k) ==
    IF SucceededBefore(id, i, k) = {} THEN getNodeOutput(hcall.registry, id)
    ELSE LET run == Latest(SucceededBefore(id, i, k))
         IN  IterationResults(run[1])[run[2]].fields.result

\* C33: the output of a body node is written to the store of its iteration
\* and to the parent registry: a dotted reference to a node, in any iteration,
\* resolves in the latest output written for it or, for a node outside the
\* body, in the output the parent holds, and after the loop the parent holds
\* for each body node the output of its last successful run
C33_ScopedOutputsWriteThrough ==
    ForEachRan =>
        LET body == hcall.node.each_nodes
            N == Len(InputItems)
        IN  /\ \A i \in 0..(N - 1) : \A k \in 1..Len(body) :
                   (/\ body[k].type = "UPDATE_VARIABLE"
                    /\ body[k].prefix = <<>>
                    /\ body[k].head \notin {"", "current", "current_index"}
                    /\ body[k].path # <<>>
                    /\ IterationResults(i)[k].fields.success = Bool(TRUE)) =>
                       IterationResults(i)[k].fields.result.fields.resolved_input
                           = NavigateOutput(HeldBefore(body[k].head, i, k), body[k].path)
            /\ \A i \in 0..(N - 1) : \A k \in 1..Len(body) :
                   (/\ body[k].type = "UPDATE_VARIABLE"
                    /\ body[k].head = "A"
                    /\ IterationResults(i)[k].fields.success = Bool(TRUE)) =>
                       IterationResults(i)[k].fields.result.fields.resolved_input
                           = resolveExpression(hcall.registry, "A", body[k].path)
            /\ \A k \in 1..Len(body) :
                   getNodeOutput(hresult.registry, body[k].id)
                       = HeldBefore(body[k].id, N, 1)

\* two iterations in which the model call S succeeded in the first only: R
\* read the output of A and, after the loop, the parent holds the output S
\* produced in the first iteration
C33_Witness ==
    /\ ForEachRan
    /\ hcall \in OutputCalls
    /\ Len(InputItems) = 2
    /\ Len(hcall.node.each_nodes) = 3
    /\ hcall.fails = {<<1, 2>>}
    /\ getNodeOutput(hresult.registry, "S") = ProviderOutput
    /\ IterationResults(1)[3].fields.result.fields.resolved_input = Str(3)

\* C34: on the same operator and operands the test of the filter operation
\* and the test of the Condition node both fail, or both return the same
\* boolean
C34_FilterMatchesCondition ==
    (hcall.node.type = "evaluateCondition" /\ hresult # NoHandlerResult) =>
        hresult.filter = hresult.condition

\* no flow waits in the queue while fewer than global_limit flows run
NoFreeSlotWhileQueued ==
    (executionQueue # <<>>) => Cardinality(runningFlows) >= globalLimit

\* C35: whenever control is back at the event loop and the queue is not
\* empty, the running set has exactly global_limit members
C35_WorkConserving ==
    (Len(executionQueue) > 0) => Cardinality(runningFlows) = globalLimit

\* run r executes its Update-Variable node in this step
NodeRuns(r) ==
    /\ r <= Len(hresult.runs)
    /\ hresult.runs[r].pc = "started"
    /\ hresult'.runs[r].pc = "done"

\* C36: an Update-Variable transform changes only its target variable: the
\* object the payload was read from, nested objects included, has the same
\* content after the node as before, and so has every other variable
C36_TransformLeavesSource ==
    [][\A r \in 1..MaxRuns : NodeRuns(r) =>
          /\ hcall'.variables[1].default = hcall.variables[1].default
          /\ \A id \in DOMAIN hresult.runs[r].registry.variables \ {hcall.node.variable_id} :
                 getVariable(hresult'.runs[r].registry, id)
                     = getVariable(Held(hresult.runs[r], hcall), id)]_vars

\* C37: in the registry a constructor, a setVariable call or a handler leaves,
\* every variable that has a declared type and holds a value holds a value of
\* that type
C37_TypedVariablesHoldTheirType ==
    (hresult # NoHandlerResult /\ "registry" \in DOMAIN hresult) =>
        \A id \in DOMAIN hresult.registry.variables :
            MatchesTag(DeclaredType(hresult.registry, id), hresult.registry.variables[id])

\* C38: once shutdown has been called no flow enters the running set
C38_NoStartAfterShutdown ==
    [][shutdownCall.pc \in {"waiting", "returned"} => runningFlows' \subseteq runningFlows]_vars

\* C20: a Condition node runs the nodes of at most one branch: the first
\* branch other than default, in the order of declaration, whose condition
\* holds of switch_value; default, wherever it is declared, when no other
\* branch matches; and no node, with matched_branch null, when nothing
\* matches and there is no default
C20_FirstMatchingBranch ==
    (ConditionRan /\ hresult.success) =>
        LET branches == hcall.node.branches
            switchValue == getVariable(hcall.registry, "score")
            matching == {k \in 1..Len(branches) :
                            /\ branches[k].name # "default"
                            /\ evaluateCondition(switchValue, branches[k].condition,
                                                 branches[k].value).holds}
            fired == IF matching # {}
                     THEN CHOOSE k \in matching : \A j \in matching : k <= j
                     ELSE DefaultBranch(branches)
        IN  IF fired = 0
            THEN /\ hresult.trace = <<>>
                 /\ hresult.output.fields.matched_branch = Null
                 /\ hresult.registry = hcall.registry
            ELSE /\ hresult.trace =
                        [k \in 1..Len(branches[fired].nodes) |->
                            [ev |-> "branch", branch |-> branches[fired].name,
                             node |-> branches[fired].nodes[k].id]]
                 /\ hresult.output.fields.matched_branch = Txt(<<branches[fired].name>>)
                 /\ getVariable(hresult.registry, "grade") = Txt(<<branches[fired].name>>)

====
